---------------------------- MODULE Spec2Model ----------------------------
(***************************************************************************)
(* A model of the rbdimmerESP32 AC dimmer library                          *)
(* (src/src/rbdimmerESP32.cpp, src/src/rbdimmerESP32.h).                   *)
(*                                                                         *)
(* State: the zero-cross manager (detector table, isr_installed), the      *)
(* dimmer manager (registry of channel handles), the heap objects of the   *)
(* channels with their two one-shot esp_timers, and the output GPIO        *)
(* levels.  One action per public API function, one for the zero-cross     *)
(* interrupt handler and one per timer callback.                           *)
(*                                                                         *)
(*   Spec           the library: API calls, zero-cross edges, timer        *)
(*                  expiries, one channel                                  *)
(*   SpecCurve      level_to_delay as a pure function of (level,           *)
(*                  half-cycle, curve), inputs drawn in Init               *)
(*   SpecMeasure    frequency measurement under irregular edges            *)
(*   SpecRegistry   the detector table under every kind of registration    *)
(*   SpecFull       channel creation up to and beyond a full registry      *)
(*   SpecHeap       three channels created and deleted in any order, and   *)
(*                  handles used after their channel was deleted           *)
(*   SpecStepTime   the step time of one transition job, every pair of     *)
(*                  levels                                                 *)
(*   SpecSolo       one transition job at a time (FairSolo: with the       *)
(*                  scheduler's fairness)                                  *)
(*   SpecTransition transition jobs beside one another and direct sets     *)
(*   SpecCallback   zero-cross callbacks on two phases                     *)
(*   SpecRace       one channel with the control context, the interrupt    *)
(*                  handler and the timer callbacks interleaved statement  *)
(*                  by statement                                           *)
(*   SpecLife       rbdimmer_init and rbdimmer_deinit at any time          *)
(*   SpecRelease    a channel released while transition jobs are in flight *)
(*   SpecCustom     one channel created and set with every curve type,     *)
(*                  at every level and every half-cycle                    *)
(***************************************************************************)
EXTENDS Integers, Sequences, FiniteSets, TLC

(***************************************************************************)
(* Program constants (rbdimmerESP32.h)                                     *)
(***************************************************************************)
RBDIMMER_MAX_PHASES == 4
RBDIMMER_MAX_CHANNELS == 8
RBDIMMER_DEFAULT_PULSE_WIDTH_US == 50
RBDIMMER_DEFAULT_FREQUENCY == 0
RBDIMMER_FREQUENCY_MIN == 45
RBDIMMER_FREQUENCY_MAX == 65
RBDIMMER_MIN_DELAY_US == 50
\* gpio_num_t's upper bound on the ESP32 (driver/gpio.h), used by the pin checks
GPIO_NUM_MAX == 40
\* declared by the header, used nowhere in the library
RBDIMMER_MEASURE_CYCLES == 10
\* number of accepted samples that ends a frequency measurement
MEASURE_SAMPLES == 20
\* the uint32_t quantities (delays, periods, time stamps) stay far below 2^31
\* in every state the model reaches, so they are plain integers here

RBDIMMER_CURVE_LINEAR == "LINEAR"
RBDIMMER_CURVE_RMS == "RMS"
RBDIMMER_CURVE_LOGARITHMIC == "LOGARITHMIC"
RBDIMMER_CURVE_CUSTOM == "CUSTOM"
rbdimmer_curve_t ==
    {RBDIMMER_CURVE_LINEAR, RBDIMMER_CURVE_RMS,
     RBDIMMER_CURVE_LOGARITHMIC, RBDIMMER_CURVE_CUSTOM}

TIMER_STATE_IDLE == "IDLE"
TIMER_STATE_DELAY == "DELAY"
TIMER_STATE_PULSE_ON == "PULSE_ON"
timer_state_t == {TIMER_STATE_IDLE, TIMER_STATE_DELAY, TIMER_STATE_PULSE_ON}

RBDIMMER_OK == "OK"
RBDIMMER_ERR_INVALID_ARG == "ERR_INVALID_ARG"
RBDIMMER_ERR_NO_MEMORY == "ERR_NO_MEMORY"
RBDIMMER_ERR_NOT_FOUND == "ERR_NOT_FOUND"
RBDIMMER_ERR_ALREADY_EXIST == "ERR_ALREADY_EXIST"
RBDIMMER_ERR_TIMER_FAILED == "ERR_TIMER_FAILED"
RBDIMMER_ERR_GPIO_FAILED == "ERR_GPIO_FAILED"

(***************************************************************************)
(* Bounds of the model and the input sets the actions draw from            *)
(***************************************************************************)
\* the heap objects malloc can hand out for channels: one more than the
\* registry can hold
Handles == 1..(RBDIMMER_MAX_CHANNELS + 1)
\* the phase ids the application uses are 0..MaxPhaseArg
MaxPhaseArg == 0
\* arguments of rbdimmer_register_zero_cross
ZcPinArgs == {4}
PhaseArgs == 0..MaxPhaseArg
FrequencyArgs == {0, 60, 70}
\* arguments of rbdimmer_create_channel / the setters (150 is clamped to 100)
OutPinArgs == {18}
LevelArgs == {0, 50, 150}
CurveArgs == {RBDIMMER_CURVE_LINEAR, RBDIMMER_CURVE_RMS}
\* half-period of the mains the detectors are wired to (60 Hz, 50 Hz)
MainsHalfPeriods == {8333, 10000}

\* a stopped (or never started) one-shot timer
TIMER_STOPPED == -1
\* the NULL handle / no table index
NULL == 0

(***************************************************************************)
(* Curve tables, as init_level_tables() leaves them                        *)
(***************************************************************************)
level_to_delay_table_linear == [i \in 0..100 |-> 100 - i]

\* round(100 * acos(sqrt(i/100)) / pi), index i+1
level_to_delay_table_rms ==
    << 100, 47, 45, 44, 44, 43, 42, 41, 41, 40, 40, 39, 39, 38, 38, 37, 37,
       36, 36, 36, 35, 35, 34, 34, 34, 33, 33, 33, 32, 32, 32, 31, 31, 31,
       30, 30, 30, 29, 29, 29, 28, 28, 28, 27, 27, 27, 26, 26, 26, 25, 25,
       25, 24, 24, 24, 23, 23, 23, 22, 22, 22, 21, 21, 21, 20, 20, 20, 19,
       19, 19, 18, 18, 18, 17, 17, 17, 16, 16, 16, 15, 15, 14, 14, 14, 13,
       13, 12, 12, 11, 11, 10, 10, 9, 9, 8, 7, 6, 6, 5, 3, 0 >>

\* round(100 * (1 - log10(1 + 9*i/100))), index i+1
level_to_delay_table_log ==
    << 100, 96, 93, 90, 87, 84, 81, 79, 76, 74, 72, 70, 68, 66, 65, 63, 61,
       60, 58, 57, 55, 54, 53, 51, 50, 49, 48, 46, 45, 44, 43, 42, 41, 40,
       39, 38, 37, 36, 35, 35, 34, 33, 32, 31, 30, 30, 29, 28, 27, 27, 26,
       25, 25, 24, 23, 23, 22, 21, 21, 20, 19, 19, 18, 18, 17, 16, 16, 15,
       15, 14, 14, 13, 13, 12, 12, 11, 11, 10, 10, 9, 9, 8, 8, 7, 7, 6, 6,
       5, 5, 5, 4, 4, 3, 3, 2, 2, 2, 1, 1, 0, 0 >>

\* mutant: a switch without the default label, the entry of a curve that has
\* no case left at 0
delay_percent_of_no_default(level_percent, curve_type) ==
    CASE curve_type = RBDIMMER_CURVE_RMS ->
             level_to_delay_table_rms[level_percent + 1]
      [] curve_type = RBDIMMER_CURVE_LOGARITHMIC ->
             level_to_delay_table_log[level_percent + 1]
      [] curve_type = RBDIMMER_CURVE_LINEAR ->
             level_to_delay_table_linear[level_percent]
      [] OTHER -> 0

\* mutant: the linear table read without its inversion (level, not 100 - level)
delay_percent_of_uninverted(level_percent, curve_type) ==
    CASE curve_type = RBDIMMER_CURVE_RMS ->
             level_to_delay_table_rms[level_percent + 1]
      [] curve_type = RBDIMMER_CURVE_LOGARITHMIC ->
             level_to_delay_table_log[level_percent + 1]
      [] OTHER -> level_percent

\* the switch of level_to_delay: the table entry of a level in 1..99
delay_percent_of(level_percent, curve_type) ==
    CASE curve_type = RBDIMMER_CURVE_RMS ->
             level_to_delay_table_rms[level_percent + 1]
      [] curve_type = RBDIMMER_CURVE_LOGARITHMIC ->
             level_to_delay_table_log[level_percent + 1]
      [] OTHER -> level_to_delay_table_linear[level_percent]

\* mutant: the lower limit left out
clamp_delay_upper_only(delay_us, half_cycle_us) ==
    IF delay_us > half_cycle_us - RBDIMMER_DEFAULT_PULSE_WIDTH_US
    THEN half_cycle_us - RBDIMMER_DEFAULT_PULSE_WIDTH_US ELSE delay_us

\* the two limits applied to the scaled delay
clamp_delay(delay_us, half_cycle_us) ==
    LET lo == IF delay_us < RBDIMMER_MIN_DELAY_US
              THEN RBDIMMER_MIN_DELAY_US ELSE delay_us
        top == half_cycle_us - RBDIMMER_DEFAULT_PULSE_WIDTH_US
    IN  IF lo > top THEN top ELSE lo

\* mutant: level 0 returns the whole half-cycle, the pulse width forgotten
level_to_delay_off_at_half_cycle(level_percent, half_cycle_us, curve_type) ==
    IF level_percent >= 100 THEN RBDIMMER_MIN_DELAY_US
    ELSE IF level_percent <= 0 THEN half_cycle_us
    ELSE clamp_delay(
             (half_cycle_us * delay_percent_of(level_percent, curve_type))
                 \div 100,
             half_cycle_us)

\* level_to_delay: the two special-cased ends, else the table entry scaled to
\* the half-cycle and limited
level_to_delay(level_percent, half_cycle_us, curve_type) ==
    IF level_percent >= 100 THEN RBDIMMER_MIN_DELAY_US
    ELSE IF level_percent <= 0
         THEN half_cycle_us - RBDIMMER_DEFAULT_PULSE_WIDTH_US
    ELSE clamp_delay(
             (half_cycle_us * delay_percent_of(level_percent, curve_type))
                 \div 100,
             half_cycle_us)


(***************************************************************************)
(* State                                                                   *)
(***************************************************************************)
VARIABLES
    zero_cross,     \* zero_cross_manager.zero_cross[0..count-1], a sequence
    isr_installed,  \* zero_cross_manager.isr_installed
    channels,       \* dimmer_manager.channels[0..count-1], handles in order
    ch,             \* the heap: handle -> rbdimmer_channel_s of each live object
    gpio,           \* level of each output pin
    mains_us,       \* half-period of the mains behind the detectors
    last,           \* history: the kind of the last step ("boot", "api",
                    \* "register", "create", "delete", "deactivate",
                    \* "update_all", "set_level", "set_curve", "set_active",
                    \* "zero_cross", "delay_timer", "pulse_timer", "init",
                    \* "deinit", "transition", "set_callback", the "task_"
                    \* steps of a transition job, and "set_active_begin",
                    \* "set_active_step", "isr_step" where a call runs
                    \* statement by statement), the
                    \* handle, pin or phase it was about, and for a
                    \* deactivation the timer_state it found, for register,
                    \* create, delete and a setter given a freed handle the
                    \* code returned; and the calls of user callbacks the
                    \* step made
    cv,             \* argument and result of a level_to_delay evaluation
    tasks,          \* the level_transition_task jobs in flight, each with its
                    \* transition_params_t and its locals
    pc,             \* where a call of rbdimmer_set_active that is deactivating
                    \* a channel has got to, with the channel, and where a
                    \* run of the interrupt handler has got to in its loop,
                    \* with the loop index i and the phase of its
                    \* detector; "none" when no such call or run is under
                    \* way
    isr_service     \* whether the GPIO driver has its ISR service installed

vars ==
    <<zero_cross, isr_installed, channels, ch, gpio, mains_us, last, cv, tasks,
      pc, isr_service>>

\* no deactivation and no arming under way
NoCall ==
    [set_active |-> "none", channel |-> 0, isr |-> "none", i |-> 0, phase |-> 0]

NoConversion == [level |-> 0, half_cycle_us |-> 0, curve |-> "-", delay |-> -1]

Step(kind, about, was) ==
    [op |-> kind, h |-> about, was |-> was, calls |-> <<>>]

Range(s) == {s[i] : i \in DOMAIN s}
Min(S) == CHOOSE x \in S : \A y \in S : x <= y

(***************************************************************************)
(* Zero-cross registry                                                     *)
(***************************************************************************)
\* index of the first detector of a phase, NULL if there is none
find_zero_cross_by_phase(phase) ==
    LET hits == {i \in DOMAIN zero_cross : zero_cross[i].phase = phase}
    IN  IF hits = {} THEN NULL ELSE Min(hits)

\* index of the first detector on a pin, NULL if there is none
find_zero_cross_by_pin(pin) ==
    LET hits == {i \in DOMAIN zero_cross : zero_cross[i].pin = pin}
    IN  IF hits = {} THEN NULL ELSE Min(hits)

\* mutant: the limits of the frequency range taken as out of range
checked_frequency_exclusive(frequency) ==
    IF frequency <= RBDIMMER_FREQUENCY_MIN \/ frequency >= RBDIMMER_FREQUENCY_MAX
    THEN RBDIMMER_DEFAULT_FREQUENCY ELSE frequency

\* the frequency kept by register: the default (0, auto) outside 45..65
checked_frequency(frequency) ==
    IF frequency < RBDIMMER_FREQUENCY_MIN \/ frequency > RBDIMMER_FREQUENCY_MAX
    THEN RBDIMMER_DEFAULT_FREQUENCY ELSE frequency

\* the detector register appends
new_zero_cross(pin, phase, frequency) ==
    [pin |-> pin, phase |-> phase, frequency |-> frequency,
     half_cycle_us |-> IF frequency > 0 THEN 1000000 \div (2 * frequency)
                       ELSE 10000,
     last_cross_time |-> 0, callback |-> NULL, is_active |-> TRUE,
     frequency_measured |-> FALSE, measurement_count |-> 0,
     total_period_us |-> 0]

\* mutant: the search for the phase left out
register_precheck_no_duplicate_check(pin, phase) ==
    IF phase >= RBDIMMER_MAX_PHASES THEN RBDIMMER_ERR_INVALID_ARG
    ELSE IF pin >= GPIO_NUM_MAX THEN RBDIMMER_ERR_INVALID_ARG
    ELSE IF Len(zero_cross) >= RBDIMMER_MAX_PHASES THEN RBDIMMER_ERR_NO_MEMORY
    ELSE RBDIMMER_OK

\* mutant: the phase check off by one
register_precheck_phase_off_by_one(pin, phase) ==
    IF phase > RBDIMMER_MAX_PHASES THEN RBDIMMER_ERR_INVALID_ARG
    ELSE IF pin >= GPIO_NUM_MAX THEN RBDIMMER_ERR_INVALID_ARG
    ELSE IF \E i \in DOMAIN zero_cross : zero_cross[i].phase = phase
         THEN RBDIMMER_ERR_ALREADY_EXIST
    ELSE IF Len(zero_cross) >= RBDIMMER_MAX_PHASES THEN RBDIMMER_ERR_NO_MEMORY
    ELSE RBDIMMER_OK

\* the checks register makes before it touches the hardware
register_precheck(pin, phase) ==
    IF phase >= RBDIMMER_MAX_PHASES THEN RBDIMMER_ERR_INVALID_ARG
    ELSE IF pin >= GPIO_NUM_MAX THEN RBDIMMER_ERR_INVALID_ARG
    ELSE IF \E i \in DOMAIN zero_cross : zero_cross[i].phase = phase
         THEN RBDIMMER_ERR_ALREADY_EXIST
    ELSE IF Len(zero_cross) >= RBDIMMER_MAX_PHASES THEN RBDIMMER_ERR_NO_MEMORY
    ELSE RBDIMMER_OK

\* whether register calls gpio_install_isr_service: only while the flag
\* isr_installed is clear
register_installs(pin, phase, fail) ==
    /\ register_precheck(pin, phase) = RBDIMMER_OK
    /\ fail # "gpio"
    /\ ~isr_installed

\* the return code of register; fail names the primitive that fails:
\* "gpio" (gpio_config), "isr" (gpio_install_isr_service, called only while
\* the flag is clear; with the service installed in the driver it returns
\* ESP_ERR_INVALID_STATE, which register takes as success),
\* "add" (gpio_isr_handler_add), or "none"
register_zero_cross_err(pin, phase, fail) ==
    IF register_precheck(pin, phase) # RBDIMMER_OK
    THEN register_precheck(pin, phase)
    ELSE IF fail = "gpio" THEN RBDIMMER_ERR_GPIO_FAILED
    ELSE IF fail = "isr" /\ register_installs(pin, phase, fail) /\ ~isr_service
         THEN RBDIMMER_ERR_GPIO_FAILED
    ELSE IF fail = "add" THEN RBDIMMER_ERR_GPIO_FAILED
    ELSE RBDIMMER_OK

rbdimmer_register_zero_cross(pin, phase, frequency, fail) ==
    LET err == register_zero_cross_err(pin, phase, fail)
    IN  /\ zero_cross' =
               IF err = RBDIMMER_OK
               THEN Append(zero_cross,
                           new_zero_cross(pin, phase, checked_frequency(frequency)))
               ELSE zero_cross
        \* the flag is set as soon as the install step has succeeded
        /\ isr_installed' =
               (isr_installed
                  \/ (register_installs(pin, phase, fail)
                        /\ (fail # "isr" \/ isr_service)))
        /\ isr_service' =
               (isr_service
                  \/ (register_installs(pin, phase, fail) /\ fail # "isr"))
        /\ last' = Step("register", phase, err)
        /\ UNCHANGED <<channels, ch, gpio, mains_us, cv, tasks, pc>>

\* rbdimmer_set_callback: the function (NULL for none) stored in the
\* detector of the phase
rbdimmer_set_callback(phase, callback) ==
    LET i == find_zero_cross_by_phase(phase)
    IN  /\ zero_cross' = IF i = NULL THEN zero_cross
                         ELSE [zero_cross EXCEPT ![i].callback = callback]
        /\ last' = Step("set_callback", phase,
                        IF i = NULL THEN RBDIMMER_ERR_NOT_FOUND
                        ELSE RBDIMMER_OK)
        /\ UNCHANGED <<isr_installed, channels, ch, gpio, mains_us, cv, tasks, pc,
                   isr_service>>

\* mutant: the limits of the noise filter taken as accepted
sample_accepted_inclusive(period_us) == period_us >= 5000 /\ period_us <= 15000

\* mutant: the lower limit of the noise filter left out
sample_accepted_below_only(period_us) == period_us < 15000

\* the noise filter of measure_frequency
sample_accepted(period_us) == period_us > 5000 /\ period_us < 15000

\* mutant: the 60 Hz band tested before the 50 Hz band
classify_60_first(avg_half_cycle_us) ==
    IF avg_half_cycle_us >= 7500 /\ avg_half_cycle_us <= 9166 THEN 60
    ELSE IF avg_half_cycle_us >= 9000 /\ avg_half_cycle_us <= 11000 THEN 50
    ELSE 0

\* the comparison of the average with the two bands: the frequency found, 0
\* for an unknown frequency
classify(avg_half_cycle_us) ==
    IF avg_half_cycle_us >= 9000 /\ avg_half_cycle_us <= 11000 THEN 50
    ELSE IF avg_half_cycle_us >= 7500 /\ avg_half_cycle_us <= 9166 THEN 60
    ELSE 0

\* measure_frequency on a detector whose frequency is not yet measured: the
\* first edge only stamps the time, a later one gives a sample
measure_sample(zc, current_time) ==
    IF zc.last_cross_time > 0
    THEN LET period_us == current_time - zc.last_cross_time
             total == zc.total_period_us + period_us
             count == (zc.measurement_count + 1) % 256
             avg_half_cycle_us == total \div count
             stamped == [zc EXCEPT !.last_cross_time = current_time]
         IN  IF sample_accepted(period_us)
             THEN IF count >= MEASURE_SAMPLES
                  THEN IF classify(avg_half_cycle_us) = 50
                       THEN [stamped EXCEPT !.total_period_us = total,
                                            !.measurement_count = count,
                                            !.frequency = 50,
                                            !.half_cycle_us = 10000,
                                            !.frequency_measured = TRUE]
                       ELSE IF classify(avg_half_cycle_us) = 60
                       THEN [stamped EXCEPT !.total_period_us = total,
                                            !.measurement_count = count,
                                            !.frequency = 60,
                                            !.half_cycle_us = 8333,
                                            !.frequency_measured = TRUE]
                       ELSE [stamped EXCEPT !.frequency = 0,
                                            !.frequency_measured = FALSE,
                                            !.measurement_count = 0,
                                            !.total_period_us = 0]
                  ELSE [stamped EXCEPT !.total_period_us = total,
                                       !.measurement_count = count]
             ELSE stamped
    ELSE [zc EXCEPT !.last_cross_time = current_time]

\* measure_frequency: nothing once the frequency is measured
measure_frequency(zc, current_time) ==
    IF zc.frequency_measured THEN zc ELSE measure_sample(zc, current_time)

(***************************************************************************)
(* Channels                                                                *)
(***************************************************************************)
\* update_channel_delay on channel object c
update_channel_delay(c) ==
    IF ~c.needs_update THEN c
    ELSE LET i == find_zero_cross_by_phase(c.phase)
         IN  IF i = NULL THEN c
             ELSE [c EXCEPT !.current_delay =
                                level_to_delay(c.level_percent,
                                               zero_cross[i].half_cycle_us,
                                               c.curve_type),
                            !.needs_update = FALSE]

\* the object rbdimmer_create_channel initialises
new_channel(gpio_pin, phase, initial_level, curve_type, half_cycle_us) ==
    LET level == IF initial_level > 100 THEN 100 ELSE initial_level
    IN  [gpio_pin |-> gpio_pin, phase |-> phase, level_percent |-> level,
         curve_type |-> curve_type, is_active |-> TRUE, needs_update |-> TRUE,
         timer_state |-> TIMER_STATE_IDLE,
         delay_timer |-> TIMER_STOPPED, pulse_timer |-> TIMER_STOPPED,
         current_delay |-> level_to_delay(level, half_cycle_us, curve_type)]

\* mutant: the object allocated before the detector is looked up
create_channel_err_malloc_first(gpio_pin, phase, fail) ==
    IF gpio_pin >= GPIO_NUM_MAX THEN RBDIMMER_ERR_INVALID_ARG
    ELSE IF fail = "malloc" \/ Handles \ DOMAIN ch = {}
         THEN RBDIMMER_ERR_NO_MEMORY
    ELSE IF find_zero_cross_by_phase(phase) = NULL THEN RBDIMMER_ERR_NOT_FOUND
    ELSE IF fail = "gpio" THEN RBDIMMER_ERR_GPIO_FAILED
    ELSE IF fail \in {"delay_timer", "pulse_timer"}
         THEN RBDIMMER_ERR_TIMER_FAILED
    ELSE IF Len(channels) >= RBDIMMER_MAX_CHANNELS THEN RBDIMMER_ERR_NO_MEMORY
    ELSE RBDIMMER_OK

\* the return code of create; fail names the primitive that fails: "malloc",
\* "gpio" (gpio_config), "delay_timer" or "pulse_timer" (esp_timer_create),
\* or "none"; malloc also fails when the pool of handles is used up
create_channel_err(gpio_pin, phase, fail) ==
    IF gpio_pin >= GPIO_NUM_MAX THEN RBDIMMER_ERR_INVALID_ARG
    ELSE IF find_zero_cross_by_phase(phase) = NULL THEN RBDIMMER_ERR_NOT_FOUND
    ELSE IF fail = "malloc" \/ Handles \ DOMAIN ch = {}
         THEN RBDIMMER_ERR_NO_MEMORY
    ELSE IF fail = "gpio" THEN RBDIMMER_ERR_GPIO_FAILED
    ELSE IF fail \in {"delay_timer", "pulse_timer"}
         THEN RBDIMMER_ERR_TIMER_FAILED
    ELSE IF Len(channels) >= RBDIMMER_MAX_CHANNELS THEN RBDIMMER_ERR_NO_MEMORY
    ELSE RBDIMMER_OK

\* mutant: the object and its timers not released when the registry is full
create_channel_keeps_object_when_full(gpio_pin, phase, fail) ==
    \/ create_channel_err(gpio_pin, phase, fail) = RBDIMMER_OK
    \/ /\ create_channel_err(gpio_pin, phase, "none") = RBDIMMER_ERR_NO_MEMORY
       /\ fail = "none"
       /\ Handles \ DOMAIN ch # {}

\* whether the object create allocated, with its two timers, is still
\* allocated when create returns: every error path after malloc frees it
create_channel_keeps_object(gpio_pin, phase, fail) ==
    create_channel_err(gpio_pin, phase, fail) = RBDIMMER_OK

\* whether create got as far as gpio_set_level(pin, 0)
create_channel_writes_pin(gpio_pin, phase, fail) ==
    /\ gpio_pin < GPIO_NUM_MAX
    /\ find_zero_cross_by_phase(phase) # NULL
    /\ Handles \ DOMAIN ch # {}
    /\ fail \notin {"malloc", "gpio"}

rbdimmer_create_channel(gpio_pin, phase, initial_level, curve_type, fail) ==
    LET err == create_channel_err(gpio_pin, phase, fail)
        h == Min(Handles \ DOMAIN ch)
    IN  /\ ch' = IF create_channel_keeps_object(gpio_pin, phase, fail)
                 THEN [x \in DOMAIN ch \cup {h} |->
                          IF x = h
                          THEN new_channel(
                                   gpio_pin, phase, initial_level, curve_type,
                                   zero_cross[find_zero_cross_by_phase(phase)]
                                       .half_cycle_us)
                          ELSE ch[x]]
                 ELSE ch
        /\ channels' = IF err = RBDIMMER_OK THEN Append(channels, h)
                       ELSE channels
        /\ gpio' = IF create_channel_writes_pin(gpio_pin, phase, fail)
                   THEN [gpio EXCEPT ![gpio_pin] = 0] ELSE gpio
        /\ last' = Step("create", phase, err)
        /\ UNCHANGED <<zero_cross, isr_installed, mains_us, cv, tasks, pc,
                   isr_service>>

\* the channel object after rbdimmer_set_level(c, level_percent)
channel_set_level(c, level_percent) ==
    LET level == IF level_percent > 100 THEN 100 ELSE level_percent
        c1 == [c EXCEPT !.level_percent = level, !.needs_update = TRUE]
    IN  IF c.level_percent # level
        THEN IF c1.is_active THEN update_channel_delay(c1) ELSE c1
        ELSE c

rbdimmer_set_level(h, level_percent) ==
    /\ h \in DOMAIN ch
    /\ ch' = [ch EXCEPT ![h] = channel_set_level(ch[h], level_percent)]
    /\ last' = Step("api", NULL, "-")
    /\ UNCHANGED <<zero_cross, isr_installed, channels, gpio, mains_us, cv, tasks, pc,
                   isr_service>>

(***************************************************************************)
(* Smooth transitions: rbdimmer_set_level_transition and the FreeRTOS task *)
(* level_transition_task it creates                                        *)
(***************************************************************************)
\* the task handles xTaskCreate can hand out
TaskIds == {1, 2}

Abs(x) == IF x < 0 THEN -x ELSE x

\* the job one tasks[] member stands for, by its task handle
TaskOf(id) == CHOOSE t \in tasks : t.id = id

\* transition_params_t as rbdimmer_set_level_transition fills it, with the
\* locals of the task not yet computed (pc "start"); step_ms is the fixed 20
transition_params(id, h, start_level, target_level, transition_ms) ==
    [id |-> id, channel |-> h, start_level |-> start_level,
     target_level |-> target_level, transition_ms |-> transition_ms,
     step_ms |-> 20, pc |-> "start", current |-> start_level, step |-> 0,
     step_time |-> 0, sleeps |-> 0, since_write |-> -1]

\* mutant: the floor step_ms not applied
transition_step_time_no_floor(start_level, target_level, transition_ms, step_ms) ==
    IF Abs(target_level - start_level) > 0
    THEN transition_ms \div Abs(target_level - start_level)
    ELSE transition_ms

\* step_time of level_transition_task: the duration shared out over the
\* steps, not below step_ms
transition_step_time(start_level, target_level, transition_ms, step_ms) ==
    LET steps == Abs(target_level - start_level)
        step_time == IF steps > 0 THEN transition_ms \div steps
                     ELSE transition_ms
    IN  IF step_time < step_ms THEN step_ms ELSE step_time

\* mutant: the counter moved by two, the check for passing the target kept
task_advance_by_two(current, step, target) ==
    LET next == (current + 2 * step) % 256
    IN  IF (step > 0 /\ next > target) \/ (step < 0 /\ next < target)
        THEN target ELSE next

\* current += step on the uint8_t counter, then the check for having passed
\* the target
task_advance(current, step, target) ==
    LET next == (current + step) % 256
    IN  IF (step > 0 /\ next > target) \/ (step < 0 /\ next < target)
        THEN target ELSE next

\* the prologue of level_transition_task: its locals
level_transition_task_begin(id) ==
    /\ \E t \in tasks : t.id = id /\ t.pc = "start"
    /\ LET t == TaskOf(id)
       IN  tasks' = (tasks \ {t}) \cup
               {[t EXCEPT !.pc = "run",
                          !.current = t.start_level,
                          !.step = IF t.target_level > t.start_level
                                   THEN 1 ELSE -1,
                          !.step_time =
                              transition_step_time(
                                  t.start_level, t.target_level,
                                  t.transition_ms, t.step_ms)]}
    /\ last' = Step("task_begin", id, "-")
    /\ UNCHANGED <<zero_cross, isr_installed, channels, ch, gpio, mains_us, cv, pc,
                   isr_service>>

\* mutant: the task ends without its final rbdimmer_set_level(target)
task_final_level_skipped(c, target) == c

\* the final update of level_transition_task
task_final_level(c, target) == channel_set_level(c, target)

\* mutant: the loop continues from the level it finds on the channel
task_loop_level_from_channel(t, c) == c.level_percent

\* the level the loop body sets: the task's own counter, whatever the
\* channel holds
task_loop_level(t, c) == t.current

\* level_transition_task from the loop test to the next vTaskDelay, or, when
\* the counter has reached the target, through the final update to
\* free(params) and vTaskDelete.  The task keeps the pointer it was given:
\* when the channel has been deleted meanwhile, rbdimmer_set_level reads and
\* writes the freed block, which belongs to no live object (a block that
\* malloc has handed out again is the new channel's object)
level_transition_task_run(id) ==
    /\ \E t \in tasks : t.id = id /\ t.pc = "run"
    /\ LET t == TaskOf(id)
           h == t.channel
       IN  IF h \notin DOMAIN ch
           THEN /\ ch' = ch
                /\ tasks' = IF t.current # t.target_level
                            THEN (tasks \ {t}) \cup
                                 {[t EXCEPT !.current =
                                                task_advance(t.current, t.step,
                                                             t.target_level),
                                            !.pc = "sleep",
                                            !.since_write = 0]}
                            ELSE tasks \ {t}
                /\ last' = IF t.current # t.target_level
                           THEN Step("task_write", id, "-")
                           ELSE Step("task_exit", id, "-")
           ELSE
              IF t.current # t.target_level
              THEN /\ ch' = [ch EXCEPT ![h] =
                                channel_set_level(ch[h],
                                                  task_loop_level(t, ch[h]))]
                   /\ tasks' = (tasks \ {t}) \cup
                          {[t EXCEPT !.current =
                                         task_advance(t.current, t.step,
                                                      t.target_level),
                                     !.pc = "sleep",
                                     !.since_write = 0]}
                   /\ last' = Step("task_write", id, "-")
              ELSE /\ ch' = [ch EXCEPT ![h] =
                                task_final_level(ch[h], t.target_level)]
                   /\ tasks' = tasks \ {t}
                   /\ last' = Step("task_exit", id, "-")
    /\ UNCHANGED <<zero_cross, isr_installed, channels, gpio, mains_us, cv, pc,
                   isr_service>>

\* vTaskDelay(pdMS_TO_TICKS(step_time)) has elapsed
level_transition_task_wake(id) ==
    /\ \E t \in tasks : t.id = id /\ t.pc = "sleep"
    /\ LET t == TaskOf(id)
       IN  tasks' = (tasks \ {t}) \cup
               {[t EXCEPT !.pc = "run", !.sleeps = t.sleeps + 1,
                          !.since_write = t.since_write + t.step_time]}
    /\ last' = Step("task_wake", id, "-")
    /\ UNCHANGED <<zero_cross, isr_installed, channels, ch, gpio, mains_us, cv, pc,
                   isr_service>>

\* mutant: the threshold of the immediate set taken as inclusive
transition_is_immediate_inclusive(transition_ms) == transition_ms <= 50

\* below 50 ms the level is set at once
transition_is_immediate(transition_ms) == transition_ms < 50

\* the return code of rbdimmer_set_level_transition; fail names the
\* primitive that fails: "malloc", "task" (xTaskCreate), or "none"; the two
\* are reached only for a new level and a duration of 50 ms or more
set_level_transition_err(h, level_percent, transition_ms, fail) ==
    LET level == IF level_percent > 100 THEN 100 ELSE level_percent
    IN  IF h = NULL THEN RBDIMMER_ERR_INVALID_ARG
        ELSE IF ch[h].level_percent = level THEN RBDIMMER_OK
        ELSE IF transition_is_immediate(transition_ms) THEN RBDIMMER_OK
        ELSE IF fail \in {"malloc", "task"} \/ TaskIds \ {t.id : t \in tasks} = {}
             THEN RBDIMMER_ERR_NO_MEMORY
        ELSE RBDIMMER_OK

rbdimmer_set_level_transition(h, level_percent, transition_ms, fail) ==
    LET level == IF level_percent > 100 THEN 100 ELSE level_percent
        err == set_level_transition_err(h, level_percent, transition_ms, fail)
        id == Min(TaskIds \ {t.id : t \in tasks})
    IN  /\ h \in DOMAIN ch
        /\ IF ch[h].level_percent = level
           THEN UNCHANGED <<ch, tasks>>
           ELSE IF transition_is_immediate(transition_ms)
           THEN /\ ch' = [ch EXCEPT ![h] = channel_set_level(ch[h], level)]
                /\ tasks' = tasks
           ELSE /\ ch' = ch
                /\ tasks' = IF err = RBDIMMER_OK
                            THEN tasks \cup
                                 {transition_params(id, h, ch[h].level_percent,
                                                    level, transition_ms)}
                            ELSE tasks
        /\ last' = Step("transition", h, err)
        /\ UNCHANGED <<zero_cross, isr_installed, channels, gpio, mains_us, cv, pc,
                   isr_service>>

(***************************************************************************)
(* Channels: the other setters                                             *)
(***************************************************************************)
\* the channel object after rbdimmer_set_curve(c, curve_type)
channel_set_curve(c, curve_type) ==
    LET c1 == [c EXCEPT !.curve_type = curve_type, !.needs_update = TRUE]
    IN  IF curve_type # c.curve_type
        THEN IF c1.is_active THEN update_channel_delay(c1) ELSE c1
        ELSE c

\* the return code of rbdimmer_set_curve: the pointer is the only thing
\* tested, the curve type is stored as given
set_curve_err(h, curve_type) ==
    IF h = NULL THEN RBDIMMER_ERR_INVALID_ARG ELSE RBDIMMER_OK

rbdimmer_set_curve(h, curve_type) ==
    /\ h \in DOMAIN ch
    /\ ch' = [ch EXCEPT ![h] = channel_set_curve(ch[h], curve_type)]
    /\ last' = Step("api", NULL, "-")
    /\ UNCHANGED <<zero_cross, isr_installed, channels, gpio, mains_us, cv, tasks, pc,
                   isr_service>>

\* mutant: the timers stopped but the state machine not reset
channel_deactivate_keeps_state(c) ==
    [c EXCEPT !.delay_timer = TIMER_STOPPED, !.pulse_timer = TIMER_STOPPED]

\* the deactivating branch of rbdimmer_set_active: both timers stopped and
\* the state machine reset (the pin is written by the action)
channel_deactivate(c) ==
    [c EXCEPT !.delay_timer = TIMER_STOPPED, !.pulse_timer = TIMER_STOPPED,
              !.timer_state = TIMER_STATE_IDLE]

\* the channel object after rbdimmer_set_active(c, active)
channel_set_active(c, active) ==
    LET c1 == [c EXCEPT !.is_active = active, !.needs_update = TRUE]
    IN  IF c.is_active # active
        THEN IF ~active THEN channel_deactivate(c1) ELSE c1
        ELSE c

rbdimmer_set_active(h, active) ==
    /\ h \in DOMAIN ch
    /\ ch' = [ch EXCEPT ![h] = channel_set_active(ch[h], active)]
    /\ gpio' = IF ch[h].is_active # active /\ ~active
               THEN [gpio EXCEPT ![ch[h].gpio_pin] = 0] ELSE gpio
    /\ last' = IF ch[h].is_active /\ ~active
               THEN Step("deactivate", h, ch[h].timer_state)
               ELSE Step("api", NULL, "-")
    /\ UNCHANGED <<zero_cross, isr_installed, channels, mains_us, cv, tasks, pc,
                   isr_service>>

rbdimmer_update_all ==
    /\ ch' = [h \in DOMAIN ch |->
                 IF h \in Range(channels) /\ ch[h].is_active
                 THEN update_channel_delay(ch[h]) ELSE ch[h]]
    /\ last' = Step("update_all", NULL, "-")
    /\ UNCHANGED <<zero_cross, isr_installed, channels, gpio, mains_us, cv, tasks, pc,
                   isr_service>>

\* mutant: the hole filled with the last entry instead of shifting
remove_at_swap_last(seq, index) ==
    [k \in 1..(Len(seq) - 1) |-> IF k = index THEN seq[Len(seq)] ELSE seq[k]]

\* the registry without its entry at index, order kept
remove_at(seq, index) ==
    [k \in 1..(Len(seq) - 1) |-> IF k < index THEN seq[k] ELSE seq[k + 1]]

\* the return code of delete
delete_channel_err(h) ==
    IF h = NULL THEN RBDIMMER_ERR_INVALID_ARG
    ELSE IF h \notin Range(channels) THEN RBDIMMER_ERR_NOT_FOUND
    ELSE RBDIMMER_OK

\* both timers stopped and deleted, the pin forced low, the entry removed,
\* the object freed; a pointer the registry does not hold is only compared,
\* never dereferenced
rbdimmer_delete_channel(h) ==
    /\ h \in Handles
    /\ IF delete_channel_err(h) # RBDIMMER_OK
       THEN UNCHANGED <<channels, ch, gpio>>
       ELSE /\ channels' =
                   remove_at(channels,
                             Min({k \in DOMAIN channels : channels[k] = h}))
            /\ gpio' = [gpio EXCEPT ![ch[h].gpio_pin] = 0]
            /\ ch' = [x \in DOMAIN ch \ {h} |-> ch[x]]
    /\ last' = Step("delete", h, delete_channel_err(h))
    /\ UNCHANGED <<zero_cross, isr_installed, mains_us, cv, tasks, pc,
                   isr_service>>

\* rbdimmer_init called at any time: both tables zeroed and the flag
\* cleared; the objects the registry pointed to, their timers, the handlers
\* added to the pins and the ISR service in the driver are not touched
rbdimmer_init ==
    /\ zero_cross' = <<>>
    /\ isr_installed' = FALSE
    /\ channels' = <<>>
    /\ last' = Step("init", NULL, RBDIMMER_OK)
    /\ UNCHANGED <<ch, gpio, mains_us, cv, tasks, pc, isr_service>>

\* rbdimmer_deinit calls gpio_uninstall_isr_service only under the flag
deinit_uninstalls == isr_installed

\* rbdimmer_deinit: every channel of the registry deleted as by
\* rbdimmer_delete_channel, the service uninstalled if the flag is set, the
\* detector table zeroed
rbdimmer_deinit ==
    LET released == Range(channels)
    IN  /\ ch' = [x \in DOMAIN ch \ released |-> ch[x]]
        /\ gpio' = [p \in DOMAIN gpio |->
                       IF \E h \in released : ch[h].gpio_pin = p
                       THEN 0 ELSE gpio[p]]
        /\ channels' = <<>>
        /\ zero_cross' = <<>>
        /\ isr_service' = IF deinit_uninstalls THEN FALSE ELSE isr_service
        /\ isr_installed' = FALSE
        /\ last' = Step("deinit", NULL, RBDIMMER_OK)
        /\ UNCHANGED <<mains_us, cv, tasks, pc>>

\* rbdimmer_set_level, rbdimmer_set_curve or rbdimmer_set_active (named by
\* op) called with the handle of a freed object: the functions test the
\* pointer against NULL only, read and write the freed block and return OK.
\* The block belongs to no live object, so the write reaches none; the pin
\* number a deactivation reads there is whatever the block now holds, and
\* gpio_set_level may drive any output pin low or none.  (A block that
\* malloc has handed out again is the new channel's object, and the call is
\* an ordinary call on that channel.)
stale_setter(op, h) ==
    /\ h \in Handles \ DOMAIN ch
    /\ \/ gpio' = gpio
       \/ /\ op = "set_active"
          /\ \E p \in DOMAIN gpio : gpio' = [gpio EXCEPT ![p] = 0]
    /\ last' = Step(op, h, RBDIMMER_OK)
    /\ UNCHANGED <<zero_cross, isr_installed, channels, ch, mains_us, cv, tasks, pc,
                   isr_service>>

\* the getters
rbdimmer_get_frequency(phase) ==
    IF find_zero_cross_by_phase(phase) = NULL THEN 0
    ELSE zero_cross[find_zero_cross_by_phase(phase)].frequency

rbdimmer_get_delay(h) == IF h = NULL THEN 0 ELSE ch[h].current_delay

(***************************************************************************)
(* Firing state machine: the interrupt handler and the timer callbacks     *)
(***************************************************************************)
\* mutant: the Idle check left out
zc_arms_any_state(c, phase) == c.is_active /\ c.phase = phase

\* mutant: the phase of the channel not compared with the detector's
zc_arms_any_phase(c, phase) ==
    c.is_active /\ c.timer_state = TIMER_STATE_IDLE

\* the handler arms a channel only when it is active, on the phase, and Idle
zc_arms(c, phase) ==
    c.is_active /\ c.phase = phase /\ c.timer_state = TIMER_STATE_IDLE

\* mutant: the pulse timer started for the delay alone
channel_armed_pulse_at_delay(c) ==
    [c EXCEPT !.delay_timer = c.current_delay,
              !.pulse_timer = c.current_delay,
              !.timer_state = TIMER_STATE_DELAY]

\* both one-shot timers started: the delay timer for current_delay, the pulse
\* timer for current_delay + pulse width
channel_armed(c) ==
    [c EXCEPT !.delay_timer = c.current_delay,
              !.pulse_timer = c.current_delay
                                 + RBDIMMER_DEFAULT_PULSE_WIDTH_US,
              !.timer_state = TIMER_STATE_DELAY]

\* micros() at an edge on detector zc: one mains half-period after the
\* previous edge it stamped
micros(zc) == zc.last_cross_time + mains_us

\* the heap after the arming loop of the handler for a phase
armed_heap(phase) ==
    [h \in DOMAIN ch |->
        IF h \in Range(channels) /\ zc_arms(ch[h], phase)
        THEN channel_armed(ch[h]) ELSE ch[h]]

\* the calls of user callbacks one run of the handler makes: none when the
\* detector has no callback, else one, recorded with the function called,
\* the phase, and what the library's state shows the function at that
\* moment: the detector's time stamp and the registered channels that are
\* Idle in the heap heap
callback_invocations(zc, heap) ==
    IF zc.callback # NULL
    THEN <<[callback |-> zc.callback, phase |-> zc.phase,
            last_cross_time |-> zc.last_cross_time,
            idle |-> {h \in Range(channels) :
                         heap[h].timer_state = TIMER_STATE_IDLE}]>>
    ELSE <<>>

\* mutant: the measurement run on every edge, measured or not
zero_cross_isr_handler_measures_always(pin) ==
    LET i == find_zero_cross_by_pin(pin)
        zc == zero_cross[i]
        zc1 == measure_sample(zc, micros(zc))
    IN  /\ i # NULL
        /\ IF ~zc.is_active
           THEN /\ UNCHANGED <<zero_cross, ch>>
                /\ last' = Step("zero_cross", pin, "-")
           ELSE /\ zero_cross' = [zero_cross EXCEPT ![i] = zc1]
                /\ ch' = armed_heap(zc.phase)
                /\ last' = [Step("zero_cross", pin, "-") EXCEPT
                               !.calls = callback_invocations(zc1, ch)]
        /\ UNCHANGED <<isr_installed, channels, gpio, mains_us, cv, tasks, pc,
                   isr_service>>

\* mutant: the callback called after the arming loop
zero_cross_isr_handler_callback_last(pin) ==
    LET i == find_zero_cross_by_pin(pin)
        zc == zero_cross[i]
        zc1 == IF ~zc.frequency_measured
               THEN measure_frequency(zc, micros(zc)) ELSE zc
    IN  /\ i # NULL
        /\ IF ~zc.is_active
           THEN /\ UNCHANGED <<zero_cross, ch>>
                /\ last' = Step("zero_cross", pin, "-")
           ELSE /\ zero_cross' = [zero_cross EXCEPT ![i] = zc1]
                /\ ch' = armed_heap(zc.phase)
                /\ last' = [Step("zero_cross", pin, "-") EXCEPT
                               !.calls = callback_invocations(
                                             zc1, armed_heap(zc.phase))]
        /\ UNCHANGED <<isr_installed, channels, gpio, mains_us, cv, tasks, pc,
                   isr_service>>

\* a rising edge on a pin whose handler was added by register: the
\* measurement, then the callback, then the arming loop
zero_cross_isr_handler(pin) ==
    LET i == find_zero_cross_by_pin(pin)
        zc == zero_cross[i]
        zc1 == IF ~zc.frequency_measured
               THEN measure_frequency(zc, micros(zc)) ELSE zc
    IN  /\ i # NULL
        /\ IF ~zc.is_active
           THEN /\ UNCHANGED <<zero_cross, ch>>
                /\ last' = Step("zero_cross", pin, "-")
           ELSE /\ zero_cross' = [zero_cross EXCEPT ![i] = zc1]
                /\ ch' = armed_heap(zc.phase)
                /\ last' = [Step("zero_cross", pin, "-") EXCEPT
                               !.calls = callback_invocations(zc1, ch)]
        /\ UNCHANGED <<isr_installed, channels, gpio, mains_us, cv, tasks, pc,
                   isr_service>>

\* mutant: the delay callback acts in any state
delay_timer_acts_any_state(c) == TRUE

\* the delay callback acts only in Delay
delay_timer_acts(c) == c.timer_state = TIMER_STATE_DELAY

\* expiry of the delay timer of channel object h; esp_timer dispatches the
\* timer with the earlier alarm first
delay_timer_callback(h) ==
    /\ h \in DOMAIN ch
    /\ ch[h].delay_timer # TIMER_STOPPED
    /\ \/ ch[h].pulse_timer = TIMER_STOPPED
       \/ ch[h].delay_timer <= ch[h].pulse_timer
    /\ LET c == [ch[h] EXCEPT !.delay_timer = TIMER_STOPPED]
       IN  IF delay_timer_acts(c)
           THEN /\ gpio' = [gpio EXCEPT ![c.gpio_pin] = 1]
                /\ ch' = [ch EXCEPT ![h] =
                             [c EXCEPT !.timer_state = TIMER_STATE_PULSE_ON]]
           ELSE /\ gpio' = gpio
                /\ ch' = [ch EXCEPT ![h] = c]
    /\ last' = Step("delay_timer", h, "-")
    /\ UNCHANGED <<zero_cross, isr_installed, channels, mains_us, cv, tasks, pc,
                   isr_service>>

\* the pulse callback acts only in PulseOn
pulse_timer_acts(c) == c.timer_state = TIMER_STATE_PULSE_ON

\* expiry of the pulse timer of channel object h; armed by the handler its
\* alarm is later than the delay timer's, which esp_timer therefore
\* dispatches first
pulse_timer_callback(h) ==
    /\ h \in DOMAIN ch
    /\ ch[h].pulse_timer # TIMER_STOPPED
    /\ \/ ch[h].delay_timer = TIMER_STOPPED
       \/ ch[h].pulse_timer < ch[h].delay_timer
    /\ LET c == [ch[h] EXCEPT !.pulse_timer = TIMER_STOPPED]
       IN  IF pulse_timer_acts(c)
           THEN /\ gpio' = [gpio EXCEPT ![c.gpio_pin] = 0]
                /\ ch' = [ch EXCEPT ![h] =
                             [c EXCEPT !.timer_state = TIMER_STATE_IDLE]]
           ELSE /\ gpio' = gpio
                /\ ch' = [ch EXCEPT ![h] = c]
    /\ last' = Step("pulse_timer", h, "-")
    /\ UNCHANGED <<zero_cross, isr_installed, channels, mains_us, cv, tasks, pc,
                   isr_service>>

(***************************************************************************)
(* The same code statement by statement: rbdimmer_set_active(channel,      *)
(* false) in the control context and the arming loop of the interrupt      *)
(* handler, which the other contexts can interleave with                   *)
(***************************************************************************)
\* rbdimmer_set_active up to and including the writes of is_active and
\* needs_update; a deactivation goes on with set_active_step
set_active_begin(h, active) ==
    /\ h \in DOMAIN ch
    /\ pc.set_active = "none"
    /\ IF ch[h].is_active = active
       THEN /\ UNCHANGED <<ch, pc>>
            /\ last' = Step("api", NULL, "-")
       ELSE /\ ch' = [ch EXCEPT ![h].is_active = active,
                                ![h].needs_update = TRUE]
            /\ pc' = IF active THEN pc
                     ELSE [pc EXCEPT !.set_active = "gpio", !.channel = h]
            /\ last' = IF active THEN Step("api", NULL, "-")
                       ELSE Step("set_active_begin", h, ch[h].timer_state)
    /\ UNCHANGED <<zero_cross, isr_installed, channels, gpio, mains_us, cv,
                   tasks, isr_service>>

\* the next statement of the deactivating branch: gpio_set_level(pin, 0),
\* esp_timer_stop(delay_timer), esp_timer_stop(pulse_timer),
\* timer_state = TIMER_STATE_IDLE; with the last one the call returns
set_active_step ==
    LET h == pc.channel
    IN  /\ pc.set_active # "none"
        /\ h \in DOMAIN ch
        /\ gpio' = IF pc.set_active = "gpio"
                   THEN [gpio EXCEPT ![ch[h].gpio_pin] = 0] ELSE gpio
        /\ ch' = IF pc.set_active = "stop_delay"
                 THEN [ch EXCEPT ![h].delay_timer = TIMER_STOPPED]
                 ELSE IF pc.set_active = "stop_pulse"
                 THEN [ch EXCEPT ![h].pulse_timer = TIMER_STOPPED]
                 ELSE IF pc.set_active = "state"
                 THEN [ch EXCEPT ![h].timer_state = TIMER_STATE_IDLE]
                 ELSE ch
        /\ pc' = IF pc.set_active = "gpio"
                 THEN [pc EXCEPT !.set_active = "stop_delay"]
                 ELSE IF pc.set_active = "stop_delay"
                 THEN [pc EXCEPT !.set_active = "stop_pulse"]
                 ELSE IF pc.set_active = "stop_pulse"
                 THEN [pc EXCEPT !.set_active = "state"]
                 ELSE [pc EXCEPT !.set_active = "none", !.channel = 0]
        /\ last' = IF pc.set_active = "state"
                   THEN Step("deactivate", h, ch[h].timer_state)
                   ELSE Step("set_active_step", h, pc.set_active)
        /\ UNCHANGED <<zero_cross, isr_installed, channels, mains_us, cv,
                       tasks, isr_service>>

\* where the handler goes after the loop body for index i: the test of the
\* next registry entry, or its return
isr_next(i) ==
    IF i + 1 <= Len(channels)
    THEN [pc EXCEPT !.isr = "test", !.i = i + 1]
    ELSE [pc EXCEPT !.isr = "none", !.i = 0, !.phase = 0]

\* zero_cross_isr_handler up to its loop: the detector found, the
\* measurement, the callback
isr_enter(pin) ==
    LET i == find_zero_cross_by_pin(pin)
        zc == zero_cross[i]
        zc1 == IF ~zc.frequency_measured
               THEN measure_frequency(zc, micros(zc)) ELSE zc
    IN  /\ pc.isr = "none"
        /\ i # NULL
        /\ IF ~zc.is_active
           THEN /\ UNCHANGED <<zero_cross, pc>>
                /\ last' = Step("zero_cross", pin, "-")
           ELSE /\ zero_cross' = [zero_cross EXCEPT ![i] = zc1]
                /\ pc' = IF channels = <<>> THEN pc
                         ELSE [pc EXCEPT !.isr = "test", !.i = 1,
                                         !.phase = zc.phase]
                /\ last' = [Step("zero_cross", pin, "-") EXCEPT
                               !.calls = callback_invocations(zc1, ch)]
        /\ UNCHANGED <<isr_installed, channels, ch, gpio, mains_us, cv, tasks,
                       isr_service>>

\* the next statement of the loop for registry entry i: the test of
\* is_active, phase and timer_state, the two esp_timer_stop calls,
\* esp_timer_start_once(delay_timer, current_delay),
\* esp_timer_start_once(pulse_timer, current_delay + pulse width),
\* timer_state = TIMER_STATE_DELAY; current_delay is read anew by each start
isr_step ==
    LET h == channels[pc.i]
        c == ch[h]
    IN  /\ pc.isr # "none"
        /\ pc.i \in DOMAIN channels
        /\ h \in DOMAIN ch
        /\ ch' = IF pc.isr = "stop"
                 THEN [ch EXCEPT ![h].delay_timer = TIMER_STOPPED,
                                 ![h].pulse_timer = TIMER_STOPPED]
                 ELSE IF pc.isr = "start_delay"
                 THEN [ch EXCEPT ![h].delay_timer = channel_armed(c).delay_timer]
                 ELSE IF pc.isr = "start_pulse"
                 THEN [ch EXCEPT ![h].pulse_timer = channel_armed(c).pulse_timer]
                 ELSE IF pc.isr = "state"
                 THEN [ch EXCEPT ![h].timer_state = channel_armed(c).timer_state]
                 ELSE ch
        /\ pc' = IF pc.isr = "test"
                 THEN IF zc_arms(c, pc.phase)
                      THEN [pc EXCEPT !.isr = "stop"] ELSE isr_next(pc.i)
                 ELSE IF pc.isr = "stop" THEN [pc EXCEPT !.isr = "start_delay"]
                 ELSE IF pc.isr = "start_delay"
                 THEN [pc EXCEPT !.isr = "start_pulse"]
                 ELSE IF pc.isr = "start_pulse" THEN [pc EXCEPT !.isr = "state"]
                 ELSE isr_next(pc.i)
        /\ last' = Step("isr_step", h, pc.isr)
        /\ UNCHANGED <<zero_cross, isr_installed, channels, gpio, mains_us, cv,
                       tasks, isr_service>>

(***************************************************************************)
(* The library                                                             *)
(***************************************************************************)
Init ==
    /\ zero_cross = <<>>
    /\ isr_installed = FALSE
    /\ channels = <<>>
    /\ ch = <<>>
    /\ gpio = [p \in OutPinArgs |-> 0]
    /\ mains_us \in MainsHalfPeriods
    /\ last = Step("boot", NULL, "-")
    /\ cv = NoConversion
    /\ tasks = {}
    /\ pc = NoCall
    /\ isr_service = isr_installed

\* the outcomes of the primitives are drawn only where the call reaches them;
\* the heap of this specification has room for one channel object: while one
\* lives, malloc fails
RegisterZeroCross ==
    \E pin \in ZcPinArgs, phase \in PhaseArgs :
        IF register_precheck(pin, phase) # RBDIMMER_OK
        THEN rbdimmer_register_zero_cross(pin, phase, 0, "none")
        ELSE \E frequency \in FrequencyArgs,
                fail \in {"none", "gpio", "isr", "add"} :
                 rbdimmer_register_zero_cross(pin, phase, frequency, fail)

CreateChannel ==
    \E gpio_pin \in OutPinArgs, phase \in PhaseArgs :
        IF create_channel_err(gpio_pin, phase, "none") # RBDIMMER_OK
              \/ DOMAIN ch # {}
        THEN \E fail \in IF DOMAIN ch = {} THEN {"none", "malloc"}
                         ELSE {"malloc"} :
                 rbdimmer_create_channel(gpio_pin, phase, 0,
                                         RBDIMMER_CURVE_LINEAR, fail)
        ELSE \/ \E initial_level \in LevelArgs, curve_type \in CurveArgs :
                    rbdimmer_create_channel(gpio_pin, phase, initial_level,
                                            curve_type, "none")
             \/ \E fail \in {"malloc", "gpio", "delay_timer", "pulse_timer"} :
                    rbdimmer_create_channel(gpio_pin, phase, 0,
                                            RBDIMMER_CURVE_LINEAR, fail)

SetLevel == \E h \in Handles, level \in LevelArgs : rbdimmer_set_level(h, level)

SetCurve == \E h \in Handles, curve \in CurveArgs : rbdimmer_set_curve(h, curve)

SetActive == \E h \in Handles, active \in BOOLEAN : rbdimmer_set_active(h, active)


DeleteChannel == \E h \in DOMAIN ch : rbdimmer_delete_channel(h)

ZeroCrossEdge == \E pin \in ZcPinArgs : zero_cross_isr_handler(pin)

DelayTimerExpiry == \E h \in Handles : delay_timer_callback(h)

PulseTimerExpiry == \E h \in Handles : pulse_timer_callback(h)

Next ==
    \/ RegisterZeroCross
    \/ CreateChannel
    \/ SetLevel
    \/ SetCurve
    \/ SetActive
    \/ rbdimmer_update_all
    \/ DeleteChannel
    \/ ZeroCrossEdge
    \/ DelayTimerExpiry
    \/ PulseTimerExpiry

Spec == Init /\ [][Next]_vars

(***************************************************************************)
(* level_to_delay as a pure function                                       *)
(***************************************************************************)
\* every half_cycle_us a detector can hold: 1000000 / (2 f) for a requested
\* frequency f in 45..65 (register), 10000 (auto mode, or measured 50 Hz) and
\* 8333 (measured 60 Hz)
HalfCycles ==
    {1000000 \div (2 * f) : f \in RBDIMMER_FREQUENCY_MIN..RBDIMMER_FREQUENCY_MAX}
        \cup {10000, 8333}

InitCurve ==
    /\ zero_cross = <<>>
    /\ isr_installed = FALSE
    /\ channels = <<>>
    /\ ch = <<>>
    /\ gpio = [p \in OutPinArgs |-> 0]
    /\ mains_us = 10000
    /\ last = Step("boot", NULL, "-")
    /\ cv \in [level : 0..100, half_cycle_us : HalfCycles,
               curve : rbdimmer_curve_t, delay : {-1}]
    /\ tasks = {}
    /\ pc = NoCall
    /\ isr_service = isr_installed

\* one evaluation of level_to_delay on the drawn arguments
Convert ==
    /\ cv.delay = -1
    /\ cv' = [cv EXCEPT !.delay =
                 level_to_delay(cv.level, cv.half_cycle_us, cv.curve)]
    /\ UNCHANGED <<zero_cross, isr_installed, channels, ch, gpio, mains_us, last,
                   tasks, pc, isr_service>>

SpecCurve == InitCurve /\ [][Convert]_vars

(***************************************************************************)
(* Frequency measurement under irregular edges                             *)
(***************************************************************************)
\* the spacings the edges of one run are drawn from: steady 50 Hz and 60 Hz
\* mains, noise, the limits of the noise filter, the limits of the two bands
\* and a mix whose mean can fall inside or outside the bands
PeriodPairs ==
    {{10000}, {8333}, {4000, 20000}, {5000, 10001}, {15000, 9500},
     {11000, 11001}, {9000, 8999}, {7500, 7499}, {12000, 6000}}

PairOf(period_us) == CHOOSE S \in PeriodPairs : period_us \in S

Max(S) == CHOOSE x \in S : \A y \in S : x >= y

\* edges are fed until the clock passes MaxMeasureEdges of the longer spacing
MaxMeasureEdges == 42

\* a detector just registered on pin 4, phase 0
InitMeasure ==
    /\ \E frequency \in FrequencyArgs :
           zero_cross = <<new_zero_cross(4, 0, checked_frequency(frequency))>>
    /\ isr_installed = TRUE
    /\ channels = <<>>
    /\ ch = <<>>
    /\ gpio = [p \in OutPinArgs |-> 0]
    /\ mains_us \in UNION PeriodPairs
    /\ last = Step("boot", NULL, "-")
    /\ cv = NoConversion
    /\ tasks = {}
    /\ pc = NoCall
    /\ isr_service = isr_installed

\* the time to the next edge changes to the other spacing of the run
MainsDrift ==
    /\ mains_us' \in PairOf(mains_us) \ {mains_us}
    /\ UNCHANGED <<zero_cross, isr_installed, channels, ch, gpio, last, cv, tasks, pc,
                   isr_service>>

MeasureEdge ==
    /\ micros(zero_cross[1]) <= MaxMeasureEdges * Max(PairOf(mains_us))
    /\ zero_cross_isr_handler(4)

NextMeasure == MainsDrift \/ MeasureEdge

SpecMeasure == InitMeasure /\ [][NextMeasure]_vars

(***************************************************************************)
(* The detector table under every kind of registration                     *)
(***************************************************************************)
\* arguments of rbdimmer_register_zero_cross: a usable pin and one out of
\* range, every phase and one out of range, frequencies in and around 45..65
RegistryPinArgs == {4, GPIO_NUM_MAX}
RegistryPhaseArgs == 0..RBDIMMER_MAX_PHASES
RegistryFrequencyArgs == {0, 45, 66}
RegistryFailArgs == {"none", "gpio", "isr", "add"}

RegisterAnyPhase ==
    \E pin \in RegistryPinArgs, phase \in RegistryPhaseArgs :
        IF register_precheck(pin, phase) # RBDIMMER_OK
        THEN rbdimmer_register_zero_cross(pin, phase, 0, "none")
        ELSE \E frequency \in RegistryFrequencyArgs, fail \in RegistryFailArgs :
                 rbdimmer_register_zero_cross(pin, phase, frequency, fail)

NextRegistry == RegisterAnyPhase \/ ZeroCrossEdge

\* the library just initialised, the mains at 50 Hz
InitRegistry == Init /\ mains_us = 10000

SpecRegistry == InitRegistry /\ [][NextRegistry]_vars

(***************************************************************************)
(* Channel creation up to and beyond a full registry                       *)
(***************************************************************************)
FullLevelArgs == {0, 50}
CreateFailArgs == {"none", "malloc", "gpio", "delay_timer", "pulse_timer"}

\* the library with one detector registered on pin 4 for phase 0, auto mode
InitFull ==
    /\ zero_cross = <<new_zero_cross(4, 0, RBDIMMER_DEFAULT_FREQUENCY)>>
    /\ isr_installed = TRUE
    /\ channels = <<>>
    /\ ch = <<>>
    /\ gpio = [p \in OutPinArgs |-> 0]
    /\ mains_us = 10000
    /\ last = Step("boot", NULL, "-")
    /\ cv = NoConversion
    /\ tasks = {}
    /\ pc = NoCall
    /\ isr_service = isr_installed

CreateUpToFull ==
    \E gpio_pin \in OutPinArgs, initial_level \in FullLevelArgs,
       fail \in CreateFailArgs :
        rbdimmer_create_channel(gpio_pin, 0, initial_level,
                                RBDIMMER_CURVE_LINEAR, fail)

\* the application deletes the channel it created last
DeleteNewest ==
    /\ channels # <<>>
    /\ rbdimmer_delete_channel(channels[Len(channels)])

NextFull == CreateUpToFull \/ DeleteNewest

SpecFull == InitFull /\ [][NextFull]_vars

(***************************************************************************)
(* Channels created and deleted in any order, and handles used after       *)
(* their channel was deleted                                               *)
(***************************************************************************)
\* the heap of this specification has room for three channel objects
HeapPool == {1, 2, 3}
HeapPinArgs == {18, 19}
StaleOps == {"set_level", "set_curve", "set_active"}

\* a detector whose frequency was measured at 50 Hz: the state twenty-one
\* edges 10000 us apart leave
measured_zero_cross(pin, phase) ==
    [new_zero_cross(pin, phase, RBDIMMER_DEFAULT_FREQUENCY)
        EXCEPT !.frequency = 50, !.half_cycle_us = 10000,
               !.frequency_measured = TRUE,
               !.measurement_count = MEASURE_SAMPLES,
               !.total_period_us = MEASURE_SAMPLES * 10000,
               !.last_cross_time = (MEASURE_SAMPLES + 1) * 10000]

InitHeap ==
    /\ zero_cross = <<measured_zero_cross(4, 0)>>
    /\ isr_installed = TRUE
    /\ channels = <<>>
    /\ ch = <<>>
    /\ gpio = [p \in HeapPinArgs |-> 0]
    /\ mains_us = 10000
    /\ last = Step("boot", NULL, "-")
    /\ cv = NoConversion
    /\ tasks = {}
    /\ pc = NoCall
    /\ isr_service = isr_installed

CreateInPool ==
    \E gpio_pin \in HeapPinArgs :
        rbdimmer_create_channel(gpio_pin, 0, 50, RBDIMMER_CURVE_LINEAR,
                                IF HeapPool \ DOMAIN ch = {} THEN "malloc"
                                ELSE "none")

\* the application still holds the handle of the channel it has just deleted
StaleHandle(h) ==
    /\ h \notin DOMAIN ch
    /\ last.h = h
    /\ last.op \in {"delete"} \cup StaleOps

DeleteAny ==
    \E h \in HeapPool :
        /\ h \in DOMAIN ch \/ StaleHandle(h)
        /\ rbdimmer_delete_channel(h)

StaleSetter ==
    \E op \in StaleOps, h \in HeapPool : StaleHandle(h) /\ stale_setter(op, h)

NextHeap ==
    \/ CreateInPool
    \/ DeleteAny
    \/ StaleSetter
    \/ SetActive
    \/ ZeroCrossEdge
    \/ DelayTimerExpiry
    \/ PulseTimerExpiry

SpecHeap == InitHeap /\ [][NextHeap]_vars

(***************************************************************************)
(* One transition job on every pair of levels: its step time               *)
(***************************************************************************)
TransitionMsArgs == {50, 51, 99, 1999, 2000, 2001, 100000}
\* a job is run to its end when it has at most MaxTimedSteps steps to make
MaxTimedSteps == 3

\* channel 1 created at start_level on a measured detector, and
\* rbdimmer_set_level_transition(1, target_level, transition_ms) just returned
InitStepTime ==
    /\ zero_cross = <<measured_zero_cross(4, 0)>>
    /\ isr_installed = TRUE
    /\ channels = <<1>>
    /\ gpio = [p \in OutPinArgs |-> 0]
    /\ mains_us = 10000
    /\ cv = NoConversion
    /\ \E start_level \in 0..100, target_level \in 0..100,
          transition_ms \in TransitionMsArgs :
           /\ start_level # target_level
           /\ ch = [h \in {1} |->
                       new_channel(18, 0, start_level, RBDIMMER_CURVE_LINEAR,
                                   10000)]
           /\ tasks = {transition_params(1, 1, start_level, target_level,
                                         transition_ms)}
    /\ last = Step("transition", 1, RBDIMMER_OK)
    /\ pc = NoCall
    /\ isr_service = isr_installed

TaskBegin == \E id \in TaskIds : level_transition_task_begin(id)

TaskRun == \E id \in TaskIds : level_transition_task_run(id)

TaskWake == \E id \in TaskIds : level_transition_task_wake(id)

TimedRun ==
    /\ \A t \in tasks :
           Abs(t.target_level - t.start_level) <= MaxTimedSteps
    /\ (TaskRun \/ TaskWake)

NextStepTime == TaskBegin \/ TimedRun

SpecStepTime == InitStepTime /\ [][NextStepTime]_vars

(***************************************************************************)
(* One transition job at a time and no other writer of the level           *)
(***************************************************************************)
\* targets (150 is clamped to 100) and durations around the 50 ms threshold
TransitionLevelArgs == {98, 150}
TransitionShortMsArgs == {49, 50}
TransitionFailArgs == {"none", "malloc", "task"}

\* channel 1 created at level 99 on a measured detector
InitSolo ==
    /\ zero_cross = <<measured_zero_cross(4, 0)>>
    /\ isr_installed = TRUE
    /\ channels = <<1>>
    /\ ch = [h \in {1} |->
                new_channel(18, 0, 99, RBDIMMER_CURVE_LINEAR, 10000)]
    /\ gpio = [p \in OutPinArgs |-> 0]
    /\ mains_us = 10000
    /\ last = Step("create", 0, RBDIMMER_OK)
    /\ cv = NoConversion
    /\ tasks = {}
    /\ pc = NoCall
    /\ isr_service = isr_installed

\* the primitives are drawn only where the call reaches them
SetLevelTransition ==
    \E h \in DOMAIN ch, level \in TransitionLevelArgs,
       transition_ms \in TransitionShortMsArgs :
        IF set_level_transition_err(h, level, 0, "none") = RBDIMMER_OK
              /\ ~transition_is_immediate(transition_ms)
              /\ ch[h].level_percent # (IF level > 100 THEN 100 ELSE level)
        THEN \E fail \in TransitionFailArgs :
                 rbdimmer_set_level_transition(h, level, transition_ms, fail)
        ELSE rbdimmer_set_level_transition(h, level, transition_ms, "none")

\* a transition is started only when none is running
NextSolo ==
    \/ tasks = {} /\ SetLevelTransition
    \/ TaskBegin
    \/ TaskRun
    \/ TaskWake
    \/ SetActive
    \/ ZeroCrossEdge
    \/ DelayTimerExpiry
    \/ PulseTimerExpiry

SpecSolo == InitSolo /\ [][NextSolo]_vars

\* the scheduler runs a ready task, and a delay ends
FairSolo == SpecSolo /\ WF_vars(TaskBegin \/ TaskRun \/ TaskWake)

(***************************************************************************)
(* Transition jobs beside one another and beside direct level sets         *)
(***************************************************************************)
\* rbdimmer_set_level called directly, with the levels the transitions use
SetLevelDirect ==
    \E h \in DOMAIN ch, level \in TransitionLevelArgs :
        rbdimmer_set_level(h, level)

NextTransition ==
    \/ SetLevelTransition
    \/ TaskBegin
    \/ TaskRun
    \/ TaskWake
    \/ SetLevelDirect
    \/ SetActive

SpecTransition == InitSolo /\ [][NextTransition]_vars

(***************************************************************************)
(* Zero-cross callbacks on two phases                                      *)
(***************************************************************************)
\* the pins of the two detectors, the phases set_callback is called for (2
\* is not registered) and the functions it is given
CallbackPinArgs == {4, 5}
CallbackPhaseArgs == {0, 1, 2}
CallbackArgs == {NULL, 1, 2}

\* phase 0 just registered on pin 4 in auto mode, phase 1 on pin 5 with its
\* frequency measured, channel 1 created on phase 0 and channel 2 on phase 1
InitCallback ==
    /\ zero_cross = <<new_zero_cross(4, 0, RBDIMMER_DEFAULT_FREQUENCY),
                      measured_zero_cross(5, 1)>>
    /\ isr_installed = TRUE
    /\ channels = <<1, 2>>
    /\ ch = [h \in {1, 2} |->
                new_channel(18, h - 1, 50, RBDIMMER_CURVE_LINEAR, 10000)]
    /\ gpio = [p \in OutPinArgs |-> 0]
    /\ mains_us = 10000
    /\ last = Step("create", 1, RBDIMMER_OK)
    /\ cv = NoConversion
    /\ tasks = {}
    /\ pc = NoCall
    /\ isr_service = isr_installed

SetCallback ==
    \E phase \in CallbackPhaseArgs, callback \in CallbackArgs :
        rbdimmer_set_callback(phase, callback)

NextCallback ==
    \/ SetCallback
    \/ \E pin \in CallbackPinArgs : zero_cross_isr_handler(pin)
    \/ SetActive
    \/ DelayTimerExpiry
    \/ PulseTimerExpiry

SpecCallback == InitCallback /\ [][NextCallback]_vars

(***************************************************************************)
(* One channel under the three contexts running side by side: the control  *)
(* context (rbdimmer_set_active statement by statement, rbdimmer_set_level *)
(* from a task on the other core), the interrupt handler statement by      *)
(* statement, and the esp_timer task with the two timer callbacks          *)
(***************************************************************************)
\* channel 1 just created at level 50 on a measured detector
InitRace ==
    /\ zero_cross = <<measured_zero_cross(4, 0)>>
    /\ isr_installed = TRUE
    /\ channels = <<1>>
    /\ ch = [h \in {1} |->
                new_channel(18, 0, 50, RBDIMMER_CURVE_LINEAR, 10000)]
    /\ gpio = [p \in OutPinArgs |-> 0]
    /\ mains_us = 10000
    /\ last = Step("create", 0, RBDIMMER_OK)
    /\ cv = NoConversion
    /\ tasks = {}
    /\ pc = NoCall
    /\ isr_service = isr_installed

\* a timer the handler has just started does not expire before the handler
\* has executed its remaining statements: the shortest delay is
\* RBDIMMER_MIN_DELAY_US
ArmingUnderWay == pc.isr \in {"start_pulse", "state"}

\* rbdimmer_set_level is called with a level on either side of the first
\* one (linear delays 9000 and 1000 us)
NextRace ==
    \/ \E active \in BOOLEAN : set_active_begin(1, active)
    \/ set_active_step
    \/ isr_enter(4)
    \/ isr_step
    \/ \E level \in {10, 90} : rbdimmer_set_level(1, level)
    \/ ~ArmingUnderWay /\ DelayTimerExpiry
    \/ ~ArmingUnderWay /\ PulseTimerExpiry

SpecRace == InitRace /\ [][NextRace]_vars

(***************************************************************************)
(* The life cycle: rbdimmer_init and rbdimmer_deinit called at any time    *)
(* between registrations, creations, deletions, edges and timer expiries   *)
(***************************************************************************)
\* the heap of this specification has room for two channel objects
LifePool == {1, 2}
LifePhaseArgs == {0, 1}
LifeRegisterFailArgs == {"none", "isr", "add"}

\* the library as the program starts, the mains at 50 Hz
InitLife == Init /\ mains_us = 10000

\* detectors seeded with 50 Hz, all on pin 4; the application deletes a
\* channel it holds the handle of
NextLife ==
    \/ rbdimmer_init
    \/ rbdimmer_deinit
    \/ \E phase \in LifePhaseArgs, fail \in LifeRegisterFailArgs :
           rbdimmer_register_zero_cross(4, phase, 50, fail)
    \/ \E fail \in CreateFailArgs :
           rbdimmer_create_channel(18, 0, 50, RBDIMMER_CURVE_LINEAR,
                                   IF LifePool \ DOMAIN ch = {} THEN "malloc"
                                   ELSE fail)
    \/ \E h \in Range(channels) : rbdimmer_delete_channel(h)
    \/ zero_cross_isr_handler(4)
    \/ DelayTimerExpiry
    \/ PulseTimerExpiry

SpecLife == InitLife /\ [][NextLife]_vars

(***************************************************************************)
(* A channel deleted, or the library deinitialised, while transition jobs  *)
(* for the channel are in flight                                           *)
(***************************************************************************)
NextRelease ==
    \/ SetLevelTransition
    \/ TaskBegin
    \/ TaskRun
    \/ TaskWake
    \/ rbdimmer_delete_channel(1)
    \/ rbdimmer_deinit
    \/ ZeroCrossEdge
    \/ DelayTimerExpiry
    \/ PulseTimerExpiry

SpecRelease == InitSolo /\ [][NextRelease]_vars

(***************************************************************************)
(* Every curve type on one channel: a detector registered at any accepted  *)
(* frequency, the channel created, set and deleted                         *)
(***************************************************************************)
CustomCreateLevelArgs == 0..100

\* phase 0 registered on pin 4 at a frequency the library accepts
InitCustom ==
    /\ zero_cross \in
           {<<new_zero_cross(4, 0, f)>> :
                f \in RBDIMMER_FREQUENCY_MIN..RBDIMMER_FREQUENCY_MAX}
    /\ isr_installed = TRUE
    /\ channels = <<>>
    /\ ch = <<>>
    /\ gpio = [p \in OutPinArgs |-> 0]
    /\ mains_us = 10000
    /\ last = Step("register", 0, RBDIMMER_OK)
    /\ cv = NoConversion
    /\ tasks = {}
    /\ pc = NoCall
    /\ isr_service = isr_installed

\* one channel at a time, of any curve type; set_level is called with the
\* levels at and next to the two ends (150 is clamped to 100)
NextCustom ==
    \/ /\ channels = <<>>
       /\ \E initial_level \in CustomCreateLevelArgs,
             curve_type \in rbdimmer_curve_t :
              rbdimmer_create_channel(18, 0, initial_level, curve_type, "none")
    \/ \E h \in Range(channels), curve_type \in rbdimmer_curve_t :
           rbdimmer_set_curve(h, curve_type)
    \/ \E h \in Range(channels), level \in {0, 1, 99, 150} :
           rbdimmer_set_level(h, level)
    \/ \E h \in Range(channels), active \in BOOLEAN :
           rbdimmer_set_active(h, active)
    \/ \E h \in Range(channels) : rbdimmer_delete_channel(h)

SpecCustom == InitCustom /\ [][NextCustom]_vars

(***************************************************************************)
(* Properties                                                              *)
(***************************************************************************)
\* the detector of the phase of channel object h
DetectorOf(h) == zero_cross[find_zero_cross_by_phase(ch[h].phase)]

\* the delay level_to_delay gives channel object h now
ExpectedDelay(h) ==
    level_to_delay(ch[h].level_percent, DetectorOf(h).half_cycle_us,
                   ch[h].curve_type)

\* C1: after rbdimmer_set_active(channel, false) on an active channel, the
\* channel's pin is low, both timers are stopped and timer_state is Idle,
\* whatever timer_state the call found.
C1_DeactivatedIsIdleAndLow ==
    last.op = "deactivate" =>
        /\ last.h \in DOMAIN ch
        /\ ~ch[last.h].is_active
        /\ gpio[ch[last.h].gpio_pin] = 0
        /\ ch[last.h].delay_timer = TIMER_STOPPED
        /\ ch[last.h].pulse_timer = TIMER_STOPPED
        /\ ch[last.h].timer_state = TIMER_STATE_IDLE

\* a deactivation that found the channel in PulseOn (pin high) has returned
C1_Witness == last.op = "deactivate" /\ last.was = TIMER_STATE_PULSE_ON

\* C2: a zero-cross edge that finds a channel of its phase in Delay or
\* PulseOn leaves that channel's object (timer_state, both timers, delay)
\* and its pin as they were.
C2_BusyChannelSkipped ==
    [][last'.op = "zero_cross" =>
          \A h \in DOMAIN ch :
              (/\ ch[h].timer_state # TIMER_STATE_IDLE
               /\ ch[h].phase =
                      zero_cross[find_zero_cross_by_pin(last'.h)].phase)
              => /\ h \in DOMAIN ch'
                 /\ ch'[h] = ch[h]
                 /\ gpio'[ch[h].gpio_pin] = gpio[ch[h].gpio_pin]]_vars

\* an edge has just been handled while an active channel of its phase was in
\* PulseOn: the channel is still in PulseOn, its pulse timer still armed
C2_Witness ==
    /\ last.op = "zero_cross"
    /\ \E h \in DOMAIN ch :
           /\ ch[h].is_active
           /\ ch[h].phase = zero_cross[find_zero_cross_by_pin(last.h)].phase
           /\ ch[h].timer_state = TIMER_STATE_PULSE_ON
           /\ ch[h].pulse_timer # TIMER_STOPPED
           /\ gpio[ch[h].gpio_pin] = 1

\* C3: timer_state changes only Idle->Delay (edge on the channel's phase,
\* channel active, delay timer armed for current_delay and pulse timer for
\* current_delay + pulse width), Delay->PulseOn (delay timer expiry, pin
\* high), PulseOn->Idle (pulse timer expiry, pin low), or to Idle by a
\* deactivation.
C3_OnlyListedTransitions ==
    [][\A h \in DOMAIN ch \cap DOMAIN ch' :
          ch'[h].timer_state # ch[h].timer_state =>
              \/ /\ ch[h].timer_state = TIMER_STATE_IDLE
                 /\ ch'[h].timer_state = TIMER_STATE_DELAY
                 /\ last'.op = "zero_cross"
                 /\ ch[h].is_active
                 /\ ch[h].phase =
                        zero_cross[find_zero_cross_by_pin(last'.h)].phase
                 /\ ch'[h].delay_timer = ch[h].current_delay
                 /\ ch'[h].pulse_timer =
                        ch[h].current_delay + RBDIMMER_DEFAULT_PULSE_WIDTH_US
              \/ /\ ch[h].timer_state = TIMER_STATE_DELAY
                 /\ ch'[h].timer_state = TIMER_STATE_PULSE_ON
                 /\ last' = Step("delay_timer", h, "-")
                 /\ gpio'[ch[h].gpio_pin] = 1
              \/ /\ ch[h].timer_state = TIMER_STATE_PULSE_ON
                 /\ ch'[h].timer_state = TIMER_STATE_IDLE
                 /\ last' = Step("pulse_timer", h, "-")
                 /\ gpio'[ch[h].gpio_pin] = 0
              \/ /\ ch'[h].timer_state = TIMER_STATE_IDLE
                 /\ last' = Step("deactivate", h, ch[h].timer_state)]_vars

\* a full cycle has completed: the pulse timer has just returned an active
\* channel to Idle with its pin low
C3_Witness ==
    /\ last.op = "pulse_timer"
    /\ last.h \in DOMAIN ch
    /\ ch[last.h].is_active
    /\ ch[last.h].timer_state = TIMER_STATE_IDLE
    /\ gpio[ch[last.h].gpio_pin] = 0

\* C4: every registered channel has current_delay >= min_delay_us and
\* current_delay + pulse_width_us <= half_cycle_us of its phase's detector.
C4_DelayWithinHalfCycle ==
    \A k \in DOMAIN channels :
        /\ ch[channels[k]].current_delay >= RBDIMMER_MIN_DELAY_US
        /\ ch[channels[k]].current_delay + RBDIMMER_DEFAULT_PULSE_WIDTH_US
               <= DetectorOf(channels[k]).half_cycle_us

\* C5: level_to_delay returns d with min_delay_us <= d <= half_cycle_us -
\* pulse_width_us, for every level, curve and half-cycle.
C5_DelayInBounds ==
    cv.delay # -1 =>
        /\ RBDIMMER_MIN_DELAY_US <= cv.delay
        /\ cv.delay <= cv.half_cycle_us - RBDIMMER_DEFAULT_PULSE_WIDTH_US

\* a conversion whose table entry scales below the minimum (logarithmic, level
\* 99: 0 %) has returned the minimum
C5_Witness ==
    /\ cv.level = 99
    /\ cv.curve = RBDIMMER_CURVE_LOGARITHMIC
    /\ cv.delay = RBDIMMER_MIN_DELAY_US

\* C6: level_to_delay(0) is exactly half_cycle_us - pulse_width_us and
\* level_to_delay(100) is exactly min_delay_us, for every curve.
C6_ExactEndpoints ==
    cv.delay # -1 =>
        /\ cv.level = 0 =>
               cv.delay = cv.half_cycle_us - RBDIMMER_DEFAULT_PULSE_WIDTH_US
        /\ cv.level = 100 => cv.delay = RBDIMMER_MIN_DELAY_US

\* level 0 has been converted on the RMS curve at the 60 Hz half-cycle
C6_Witness ==
    /\ cv.level = 0
    /\ cv.curve = RBDIMMER_CURVE_RMS
    /\ cv.half_cycle_us = 8333
    /\ cv.delay = 8283

\* C7: for a fixed curve and half-cycle, level_to_delay is non-increasing in
\* the level: no higher level gets a longer delay than the converted one.
C7_Monotone ==
    cv.delay # -1 =>
        \A l2 \in (cv.level + 1)..100 :
            level_to_delay(l2, cv.half_cycle_us, cv.curve) <= cv.delay

\* level 1 has been converted to less than the delay of the special-cased
\* level 0, and level 100 gets less still
C7_Witness ==
    /\ cv.level = 1
    /\ cv.delay # -1
    /\ cv.delay < level_to_delay(0, cv.half_cycle_us, cv.curve)
    /\ level_to_delay(100, cv.half_cycle_us, cv.curve) < cv.delay

\* the delay of channel object h is the one level_to_delay gives for its
\* level, its curve and the half-cycle of its phase's detector
FreshDelay(h) ==
    /\ find_zero_cross_by_phase(ch[h].phase) # NULL
    /\ rbdimmer_get_delay(h) = ExpectedDelay(h)

\* C8: when set_level, set_curve or set_active returns after changing a
\* value and the channel is active at return, its current_delay equals
\* level_to_delay(level_percent, half_cycle_us of its phase, curve_type).
C8_SetterLeavesFreshDelay ==
    [][\A h \in Handles :
          (/\ \/ \E level \in LevelArgs : rbdimmer_set_level(h, level)
              \/ \E curve \in CurveArgs : rbdimmer_set_curve(h, curve)
              \/ \E active \in BOOLEAN : rbdimmer_set_active(h, active)
           /\ \/ ch'[h].level_percent # ch[h].level_percent
              \/ ch'[h].curve_type # ch[h].curve_type
              \/ ch'[h].is_active # ch[h].is_active
           /\ ch'[h].is_active)
          => FreshDelay(h)']_vars

\* C9: when the measurement of an auto-mode detector completes, get_frequency
\* returns the frequency of the mains and every channel of the phase whose
\* delay was right for the old half-cycle has the delay level_to_delay gives
\* for the measured half-cycle.
C9_MeasurementRescalesDelay ==
    [][\A i \in DOMAIN zero_cross \cap DOMAIN zero_cross' :
          (/\ zero_cross[i].frequency = 0
           /\ ~zero_cross[i].frequency_measured
           /\ zero_cross'[i].frequency_measured)
          => /\ rbdimmer_get_frequency(zero_cross[i].phase)'
                    = (IF mains_us = 10000 THEN 50 ELSE 60)
             /\ \A h \in Range(channels) :
                    (ch[h].phase = zero_cross[i].phase /\ FreshDelay(h))
                    => FreshDelay(h)']_vars

\* C10: after rbdimmer_update_all returns, every active registered channel's
\* current_delay equals level_to_delay(level_percent, current half_cycle_us
\* of its phase, curve_type).
C10_UpdateAllLeavesFreshDelays ==
    last.op = "update_all" =>
        \A h \in Range(channels) : ch[h].is_active => FreshDelay(h)


\* the mains of the run is steady at 50 Hz or 60 Hz
SteadyMains == PairOf(mains_us) = {mains_us} /\ mains_us \in {10000, 8333}

\* the frequency and canonical half-cycle of a steady mains
MainsFrequency == IF mains_us = 10000 THEN 50 ELSE 60

\* C11 (as stated): a detector in auto mode that has seen exactly 20 edges of
\* a steady mains (10000 us or 8333 us apart) has the frequency of that mains
\* (50 or 60), and half_cycle_us 10000 at 50 Hz.
C11_MeasuredAfter20Edges ==
    \A i \in DOMAIN zero_cross :
        (/\ SteadyMains
         /\ zero_cross[i].last_cross_time = 20 * mains_us
         /\ \/ zero_cross[i].frequency = RBDIMMER_DEFAULT_FREQUENCY
            \/ zero_cross[i].frequency_measured)
        => /\ zero_cross[i].frequency = MainsFrequency
           /\ mains_us = 10000 => zero_cross[i].half_cycle_us = 10000

\* C11 (amended): the first edge only stamps the time, so 20 edges give 19
\* samples and leave the detector unmeasured; after exactly 21 edges of a
\* steady mains, and no sooner, the detector has frequency 50 and
\* half_cycle_us 10000 (10000 us apart) or frequency 60 and half_cycle_us
\* 8333 (8333 us apart).
C11_MeasuredAfter21Edges ==
    \A i \in DOMAIN zero_cross :
        SteadyMains =>
            /\ zero_cross[i].frequency_measured =>
                   zero_cross[i].last_cross_time = 21 * mains_us
            /\ zero_cross[i].last_cross_time = 20 * mains_us =>
                   /\ ~zero_cross[i].frequency_measured
                   /\ zero_cross[i].measurement_count = 19
            /\ zero_cross[i].last_cross_time = 21 * mains_us =>
                   /\ zero_cross[i].frequency_measured
                   /\ zero_cross[i].frequency = MainsFrequency
                   /\ zero_cross[i].half_cycle_us = mains_us

\* an auto-mode detector has measured 60 Hz on its 21st edge
C11_Witness ==
    /\ mains_us = 8333
    /\ zero_cross # <<>>
    /\ zero_cross[1].last_cross_time = 21 * 8333
    /\ zero_cross[1].frequency_measured
    /\ zero_cross[1].frequency = 60
    /\ zero_cross[1].total_period_us = 20 * 8333


\* the sum of the samples of detector i with the period of the coming edge
\* added
TotalWithNext(i) == zero_cross[i].total_period_us + mains_us

\* an edge has been handled by the unmeasured detector i
EdgeMeasured(i) ==
    /\ ~zero_cross[i].frequency_measured
    /\ zero_cross'[i] # zero_cross[i]

\* C12: when the 20th accepted sample is accumulated, a mean in [9000, 11000]
\* sets frequency 50 and half_cycle_us 10000, otherwise a mean in
\* [7500, 9166] sets frequency 60 and half_cycle_us 8333 (the overlap
\* 9000..9166 goes to 50 Hz), frequency_measured becoming true in both
\* cases; and frequency_measured never becomes true before the 20th sample.
C12_MeanClassified ==
    [][\A i \in DOMAIN zero_cross \cap DOMAIN zero_cross' :
          /\ (/\ EdgeMeasured(i)
              /\ zero_cross[i].measurement_count = 19
              /\ zero_cross'[i].measurement_count # 19)
             => /\ (/\ 20 * 9000 <= TotalWithNext(i)
                    /\ TotalWithNext(i) <= 20 * 11000)
                   => /\ zero_cross'[i].frequency = 50
                      /\ zero_cross'[i].half_cycle_us = 10000
                      /\ zero_cross'[i].frequency_measured
                /\ (/\ TotalWithNext(i) < 20 * 9000
                    /\ 20 * 7500 <= TotalWithNext(i))
                   => /\ zero_cross'[i].frequency = 60
                      /\ zero_cross'[i].half_cycle_us = 8333
                      /\ zero_cross'[i].frequency_measured
          /\ (~zero_cross[i].frequency_measured
                 /\ zero_cross'[i].frequency_measured)
             => /\ zero_cross[i].measurement_count = 19
                /\ zero_cross'[i].measurement_count = 20]_vars

\* twenty samples of 9000 us, a mean in the overlap of the two bands, have
\* been classified as 50 Hz
C12_Witness ==
    /\ zero_cross # <<>>
    /\ zero_cross[1].frequency_measured
    /\ zero_cross[1].measurement_count = 20
    /\ zero_cross[1].total_period_us = 20 * 9000
    /\ zero_cross[1].frequency = 50


\* detector i accumulates the coming edge as a sample: its count or its sum
\* changes
SampleTaken(i) ==
    \/ zero_cross'[i].measurement_count # zero_cross[i].measurement_count
    \/ zero_cross'[i].total_period_us # zero_cross[i].total_period_us

\* C13 (as stated): during measurement a period p is accumulated as a sample
\* if and only if 5000 <= p <= 15000, the limits included; any other period
\* leaves measurement_count and the sum unchanged.
C13_SampleWindowClosed ==
    [][\A i \in DOMAIN zero_cross \cap DOMAIN zero_cross' :
          (EdgeMeasured(i) /\ zero_cross[i].last_cross_time > 0)
          => (SampleTaken(i) <=> (5000 <= mains_us /\ mains_us <= 15000))]_vars

\* C13 (amended): during measurement a period p is accumulated as a sample if
\* and only if 5000 < p < 15000; a period of exactly 5000 or 15000, like any
\* other outside, leaves measurement_count and the sum unchanged.
C13_SampleWindowOpen ==
    [][\A i \in DOMAIN zero_cross \cap DOMAIN zero_cross' :
          (EdgeMeasured(i) /\ zero_cross[i].last_cross_time > 0)
          => (SampleTaken(i) <=> (5000 < mains_us /\ mains_us < 15000))]_vars

\* an edge 15000 us after the previous one has been stamped while the
\* detector held samples of 9500 us, none of 15000
C13_Witness ==
    /\ zero_cross # <<>>
    /\ mains_us = 15000
    /\ zero_cross[1].measurement_count = 2
    /\ zero_cross[1].total_period_us = 2 * 9500
    /\ zero_cross[1].last_cross_time = 3 * 9500 + 15000


\* every spacing of the run lies outside the sample window
NoiseOnly == \A p \in PairOf(mains_us) : p < 5000 \/ p > 15000

\* C14: while every inter-edge period lies outside the sample window (such as
\* 4000 us and 20000 us in any order), frequency_measured stays false,
\* measurement_count stays 0 and frequency and half_cycle_us keep their
\* registration values.
C14_NoiseNeverMeasures ==
    [][\A i \in DOMAIN zero_cross \cap DOMAIN zero_cross' :
          NoiseOnly =>
              /\ ~zero_cross[i].frequency_measured
              /\ ~zero_cross'[i].frequency_measured
              /\ zero_cross[i].measurement_count = 0
              /\ zero_cross'[i].measurement_count = 0
              /\ zero_cross'[i].total_period_us = 0
              /\ zero_cross'[i].frequency = zero_cross[i].frequency
              /\ zero_cross'[i].half_cycle_us = zero_cross[i].half_cycle_us]_vars

\* twenty edges 4000 us and twenty edges 20000 us after the previous one
\* have been handled by a detector seeded with 60 Hz
C14_Witness ==
    /\ zero_cross # <<>>
    /\ NoiseOnly
    /\ zero_cross[1].last_cross_time = 20 * 4000 + 20 * 20000
    /\ zero_cross[1].frequency = 60
    /\ zero_cross[1].half_cycle_us = 8333
    /\ zero_cross[1].measurement_count = 0


\* C15: when the mean of 20 accepted samples lies in neither band (below
\* 7500 or above 11000, the mean taken as the code computes it), the window
\* is reset (measurement_count and sum zero, frequency_measured false) and
\* frequency and half_cycle_us are the same after the window as before it,
\* also for a detector seeded with a frequency in 45..65.
C15_RejectedWindowKeepsFrequency ==
    [][\A i \in DOMAIN zero_cross \cap DOMAIN zero_cross' :
          (/\ EdgeMeasured(i)
           /\ zero_cross[i].measurement_count = 19
           /\ SampleTaken(i)
           /\ \/ TotalWithNext(i) \div 20 < 7500
              \/ TotalWithNext(i) \div 20 > 11000)
          => /\ zero_cross'[i].measurement_count = 0
             /\ zero_cross'[i].total_period_us = 0
             /\ ~zero_cross'[i].frequency_measured
             /\ zero_cross'[i].frequency = zero_cross[i].frequency
             /\ zero_cross'[i].half_cycle_us = zero_cross[i].half_cycle_us]_vars


\* C16: once frequency_measured is true for a detector, no later step (an
\* edge at any spacing) changes its frequency, half_cycle_us,
\* measurement_count or sum, and it stays measured.
C16_MeasurementFreezes ==
    [][\A i \in DOMAIN zero_cross \cap DOMAIN zero_cross' :
          zero_cross[i].frequency_measured =>
              /\ zero_cross'[i].frequency_measured
              /\ zero_cross'[i].frequency = zero_cross[i].frequency
              /\ zero_cross'[i].half_cycle_us = zero_cross[i].half_cycle_us
              /\ zero_cross'[i].measurement_count
                     = zero_cross[i].measurement_count
              /\ zero_cross'[i].total_period_us
                     = zero_cross[i].total_period_us]_vars

\* a detector that measured 50 Hz from samples of 6000 us and 12000 us, the
\* next edge due 6000 us after the last
C16_Witness ==
    /\ zero_cross # <<>>
    /\ zero_cross[1].frequency_measured
    /\ zero_cross[1].frequency = 50
    /\ zero_cross[1].half_cycle_us = 10000
    /\ mains_us = 6000
    /\ micros(zero_cross[1]) <= MaxMeasureEdges * Max(PairOf(mains_us))


\* C17: rbdimmer_register_zero_cross with a phase that already has a detector
\* (and a pin in range) returns ALREADY_EXIST, and with any pin leaves every
\* detector (pin, frequency, half_cycle_us, measurement state, callback) and
\* the detector count unchanged; in every reachable state no two detectors
\* share a phase.
C17_DuplicatePhaseRejected ==
    /\ [](\A i, j \in DOMAIN zero_cross :
              i # j => zero_cross[i].phase # zero_cross[j].phase)
    /\ [][(/\ last'.op = "register"
            /\ find_zero_cross_by_phase(last'.h) # NULL)
           => /\ zero_cross' = zero_cross
              /\ \A pin \in RegistryPinArgs :
                     (/\ pin < GPIO_NUM_MAX
                      /\ \E frequency \in RegistryFrequencyArgs,
                            fail \in RegistryFailArgs :
                             rbdimmer_register_zero_cross(
                                 pin, last'.h, frequency, fail))
                     => last'.was = RBDIMMER_ERR_ALREADY_EXIST]_vars

\* a registration for phase 2 has just been refused as a duplicate while the
\* detector of phase 2, first in the table, was in the middle of its
\* measurement
C17_Witness ==
    /\ last = Step("register", 2, RBDIMMER_ERR_ALREADY_EXIST)
    /\ Len(zero_cross) = 2
    /\ zero_cross[1].phase = 2
    /\ zero_cross[1].measurement_count = 7
    /\ zero_cross[1].frequency = 45


\* C18 (as stated): rbdimmer_register_zero_cross called while the table
\* holds RBDIMMER_MAX_PHASES detectors returns NO_MEMORY and leaves the table
\* unchanged.
C18_FullTableReturnsNoMemory ==
    [][(last'.op = "register" /\ Len(zero_cross) = RBDIMMER_MAX_PHASES)
       => /\ last'.was = RBDIMMER_ERR_NO_MEMORY
          /\ zero_cross' = zero_cross]_vars

\* C18 (amended): rbdimmer_register_zero_cross called while the table holds
\* RBDIMMER_MAX_PHASES detectors leaves the table unchanged and returns
\* INVALID_ARG (phase out of range) or else ALREADY_EXIST or INVALID_ARG (every
\* phase in range is taken by then); it never returns NO_MEMORY, and the
\* table never holds more than RBDIMMER_MAX_PHASES detectors.
C18_FullTableRejects ==
    /\ [](/\ Len(zero_cross) <= RBDIMMER_MAX_PHASES
          /\ last.op = "register" => last.was # RBDIMMER_ERR_NO_MEMORY)
    /\ [][(last'.op = "register" /\ Len(zero_cross) = RBDIMMER_MAX_PHASES)
           => /\ zero_cross' = zero_cross
              /\ last'.h >= RBDIMMER_MAX_PHASES
                     => last'.was = RBDIMMER_ERR_INVALID_ARG
              /\ last'.h < RBDIMMER_MAX_PHASES
                     => last'.was \in {RBDIMMER_ERR_ALREADY_EXIST,
                                       RBDIMMER_ERR_INVALID_ARG}]_vars

\* a registration has just been refused as a duplicate while the table held
\* four detectors
C18_Witness ==
    /\ Len(zero_cross) = RBDIMMER_MAX_PHASES
    /\ last.op = "register"
    /\ last.was = RBDIMMER_ERR_ALREADY_EXIST


\* the step is a successful registration with the given requested frequency
RegisteredWith(frequency) ==
    /\ last'.op = "register"
    /\ last'.was = RBDIMMER_OK
    /\ Len(zero_cross') = Len(zero_cross) + 1
    /\ \E pin \in RegistryPinArgs, fail \in RegistryFailArgs :
           rbdimmer_register_zero_cross(pin, last'.h, frequency, fail)

\* half_cycle_us of a detector changes only on the step that completes its
\* measurement
HalfCycleKeptUntilMeasured ==
    \A i \in DOMAIN zero_cross \cap DOMAIN zero_cross' :
        zero_cross'[i].half_cycle_us # zero_cross[i].half_cycle_us
        => ~zero_cross[i].frequency_measured /\ zero_cross'[i].frequency_measured

\* C19 (as stated): after a successful registration with frequency f the
\* detector's frequency is f when 45 <= f <= 65 and 0 otherwise, and its
\* half_cycle_us is 10000 until a measurement completes.
C19_SeededHalfCycleDefault ==
    [][/\ \A f \in RegistryFrequencyArgs :
              RegisteredWith(f) =>
                  LET zc == zero_cross'[Len(zero_cross')]
                  IN  /\ zc.frequency = IF 45 <= f /\ f <= 65 THEN f ELSE 0
                      /\ zc.half_cycle_us = 10000
       /\ HalfCycleKeptUntilMeasured]_vars

\* C19 (amended): after a successful registration with frequency f the
\* detector's frequency is f and its half_cycle_us is 1000000 / (2 f)
\* (integer division) when 45 <= f <= 65, otherwise its frequency is 0 and
\* its half_cycle_us is 10000; half_cycle_us keeps that value until a
\* measurement completes.
C19_SeededHalfCycleFromFrequency ==
    [][/\ \A f \in RegistryFrequencyArgs :
              RegisteredWith(f) =>
                  LET zc == zero_cross'[Len(zero_cross')]
                  IN  /\ zc.frequency = IF 45 <= f /\ f <= 65 THEN f ELSE 0
                      /\ zc.half_cycle_us =
                             IF 45 <= f /\ f <= 65
                             THEN 1000000 \div (2 * f) ELSE 10000
                      /\ ~zc.frequency_measured
       /\ HalfCycleKeptUntilMeasured]_vars

\* a detector seeded with 45 Hz has just been registered with
\* half_cycle_us 11111
C19_Witness ==
    /\ last.op = "register"
    /\ last.was = RBDIMMER_OK
    /\ zero_cross # <<>>
    /\ zero_cross[Len(zero_cross)].phase = last.h
    /\ zero_cross[Len(zero_cross)].frequency = 45
    /\ zero_cross[Len(zero_cross)].half_cycle_us = 11111


\* C20: rbdimmer_create_channel (pin in range) with a phase that has no
\* detector returns NOT_FOUND and takes nothing: no channel object, no
\* timer, no registry slot, the channel count and the output pin as before.
C20_CreateWithoutDetector ==
    [][(/\ last'.op = "create"
        /\ find_zero_cross_by_phase(last'.h) = NULL
        /\ \E gpio_pin \in OutPinArgs, fail \in {"none", "malloc"} :
               rbdimmer_create_channel(gpio_pin, last'.h, 0,
                                       RBDIMMER_CURVE_LINEAR, fail))
       => /\ last'.was = RBDIMMER_ERR_NOT_FOUND
          /\ ch' = ch
          /\ channels' = channels
          /\ gpio' = gpio]_vars

\* a create for phase 0 has just been refused, no detector being registered,
\* and the heap and the registry are empty
C20_Witness ==
    /\ last = Step("create", 0, RBDIMMER_ERR_NOT_FOUND)
    /\ find_zero_cross_by_phase(0) = NULL
    /\ ch = <<>>
    /\ channels = <<>>


\* C21: rbdimmer_create_channel on a registered phase while the registry
\* holds RBDIMMER_MAX_CHANNELS channels leaves the heap (no channel object,
\* no timer of the new channel stays allocated) and the registry (count,
\* entries, order) as they were, and returns NO_MEMORY when every primitive
\* it calls succeeds.
C21_FullRegistryRollsBack ==
    [][(/\ last'.op = "create"
        /\ Len(channels) >= RBDIMMER_MAX_CHANNELS
        /\ find_zero_cross_by_phase(last'.h) # NULL)
       => /\ ch' = ch
          /\ channels' = channels
          /\ (\E gpio_pin \in OutPinArgs, initial_level \in FullLevelArgs :
                  rbdimmer_create_channel(gpio_pin, last'.h, initial_level,
                                          RBDIMMER_CURVE_LINEAR, "none"))
             => last'.was = RBDIMMER_ERR_NO_MEMORY]_vars

\* a create has just been refused with eight channels registered and a heap
\* object still free
C21_Witness ==
    /\ last = Step("create", 0, RBDIMMER_ERR_NO_MEMORY)
    /\ Len(channels) = RBDIMMER_MAX_CHANNELS
    /\ DOMAIN ch = Range(channels)
    /\ Handles \ DOMAIN ch # {}


\* the sequence without the entries equal to h
Without(seq, h) ==
    LET keep(x) == x # h IN SelectSeq(seq, keep)

\* C22: rbdimmer_delete_channel on a registered channel returns OK, frees
\* the object with both of its timers (no callback of theirs can run any
\* more), leaves its pin low, removes exactly that entry with the order of
\* the others kept and the count one less, and leaves every other channel's
\* object and every other pin as they were.
C22_DeleteRemovesExactlyOne ==
    [][(last'.op = "delete" /\ last'.h \in Range(channels))
       => /\ last'.was = RBDIMMER_OK
          /\ last'.h \notin DOMAIN ch'
          /\ gpio'[ch[last'.h].gpio_pin] = 0
          /\ channels' = Without(channels, last'.h)
          /\ Len(channels') = Len(channels) - 1
          /\ \A x \in DOMAIN ch \ {last'.h} :
                 x \in DOMAIN ch' /\ ch'[x] = ch[x]
          /\ \A p \in DOMAIN gpio \ {ch[last'.h].gpio_pin} :
                 gpio'[p] = gpio[p]]_vars

\* the middle one of three channels has just been deleted while the two
\* others were mid-cycle, one waiting for its delay, one with its pulse on
C22_Witness ==
    /\ last = Step("delete", 2, RBDIMMER_OK)
    /\ channels = <<1, 3>>
    /\ ch[1].timer_state = TIMER_STATE_DELAY
    /\ ch[3].timer_state = TIMER_STATE_PULSE_ON


\* C23: a mutating call (delete, set_level, set_curve, set_active) given
\* the handle of a channel that has been deleted returns NOT_FOUND and
\* changes nothing: no detector, channel object, registry entry, pin or job.
C23_DeletedHandleRejected ==
    [][(/\ last'.op \in {"delete"} \cup StaleOps
        /\ last'.h \notin DOMAIN ch)
       => /\ last'.was = RBDIMMER_ERR_NOT_FOUND
          /\ UNCHANGED <<zero_cross, isr_installed, channels, ch, gpio,
                         tasks>>]_vars


\* task handle id belongs to a job in flight
Running(id) == \E t \in tasks : t.id = id

\* C24: with no other writer of the channel's level, a transition job
\* that was started eventually ends and is freed; it ends after exactly
\* |target - start| sleeps, and when it ends the channel's level_percent
\* is its target.
C24_JobEndsAtTarget ==
    /\ \A id \in TaskIds : Running(id) ~> ~Running(id)
    /\ [][last'.op = "task_exit"
            => /\ \A t \in tasks' : t.id # last'.h
               /\ TaskOf(last'.h).sleeps =
                      Abs(TaskOf(last'.h).target_level
                            - TaskOf(last'.h).start_level)
               /\ ch'[TaskOf(last'.h).channel].level_percent =
                      TaskOf(last'.h).target_level]_vars

\* a job down to level 98 has just ended and freed itself
C24_Witness ==
    /\ last = Step("task_exit", 1, "-")
    /\ tasks = {}
    /\ ch[1].level_percent = 98

\* C25: the sleep between two steps of a transition job (duration 50 ms or
\* more) is max(20, duration_ms / |target - start|), integer division, so
\* never below 20 ms, and at every write of the job after its first at
\* least 20 ms have passed since its previous write.
C25_StepTimeFloor ==
    \A t \in tasks :
        t.pc # "start"
        => /\ t.step_time =
                  Max({20, t.transition_ms
                               \div Abs(t.target_level - t.start_level)})
           /\ t.step_time >= 20
           /\ (t.pc = "run" /\ t.sleeps > 0) => t.since_write >= 20

\* a job of three steps in 50 ms (50 / 3 = 16, raised to 20) is about to
\* write for the third time, 20 ms after its second write
C25_Witness ==
    \E t \in tasks :
        /\ t.transition_ms = 50
        /\ Abs(t.target_level - t.start_level) = 3
        /\ t.pc = "run"
        /\ t.sleeps = 2
        /\ t.since_write = 20

\* C26: with no other writer of the channel's level, every write of a
\* transition job changes level_percent by at most 1, never away from the
\* target and never past it, and the level stays between start and target
\* for the whole job.
C26_StepsTowardTarget ==
    /\ [](\A t \in tasks :
              LET level == ch[t.channel].level_percent
              IN  \/ t.start_level <= level /\ level <= t.target_level
                  \/ t.target_level <= level /\ level <= t.start_level)
    /\ [][last'.op \in {"task_write", "task_exit"}
            => LET t == TaskOf(last'.h)
                   old == ch[t.channel].level_percent
                   new == ch'[t.channel].level_percent
               IN  /\ Abs(new - old) <= 1
                   /\ Abs(t.target_level - new) <= Abs(t.target_level - old)
                   /\ \/ old <= new /\ new <= t.target_level
                      \/ t.target_level <= new /\ new <= old]_vars

\* a job from 100 down to 98 has made its write of 99 and sleeps
C26_Witness ==
    /\ last = Step("task_write", 1, "-")
    /\ \E t \in tasks : t.start_level = 100 /\ t.target_level = 98
                          /\ t.current = 98
    /\ ch[1].level_percent = 99


\* C27: rbdimmer_set_level_transition(channel, level, duration_ms), malloc
\* and xTaskCreate succeeding, changes nothing and creates no job when the
\* level clamped to 100 is the channel's level; for another level and
\* duration_ms < 50 it creates no job and leaves the channel as
\* rbdimmer_set_level does; for another level and duration_ms >= 50 it
\* creates exactly one job, on that channel, from its level to the clamped
\* level, and leaves the channel as it was.
C27_TransitionStartsOneJobOrNone ==
    [][\A h \in DOMAIN ch, level \in TransitionLevelArgs,
          transition_ms \in TransitionShortMsArgs :
           (/\ TaskIds \ {t.id : t \in tasks} # {}
            /\ rbdimmer_set_level_transition(h, level, transition_ms, "none"))
           => LET target == IF level > 100 THEN 100 ELSE level
              IN  /\ last'.was = RBDIMMER_OK
                  /\ IF ch[h].level_percent = target
                     THEN UNCHANGED <<zero_cross, isr_installed, channels, ch,
                                      gpio, tasks>>
                     ELSE IF transition_ms < 50
                     THEN /\ tasks' = tasks
                          /\ ch' = [ch EXCEPT ![h] =
                                       channel_set_level(ch[h], level)]
                          /\ ch'[h].level_percent = target
                     ELSE /\ ch' = ch
                          /\ tasks \subseteq tasks'
                          /\ Cardinality(tasks' \ tasks) = 1
                          /\ \A t \in tasks' \ tasks :
                                 /\ t.channel = h
                                 /\ t.start_level = ch[h].level_percent
                                 /\ t.target_level = target
                                 /\ t.transition_ms = transition_ms]_vars

\* a call with 50 ms has just created a job towards 100 (given as 150)
\* beside a job already in flight
C27_Witness ==
    /\ last = Step("transition", 1, RBDIMMER_OK)
    /\ Cardinality(tasks) = 2
    /\ \E t \in tasks : /\ t.pc = "start"
                         /\ t.transition_ms = 50
                         /\ t.target_level = 100

\* C28: a direct rbdimmer_set_level (or set_active) call or a further
\* rbdimmer_set_level_transition leaves every job in flight as it is; each
\* loop write of a job sets the channel's level to the job's own counter
\* whatever another writer left there, and the write a job ends with sets
\* its target.
C28_JobNotCancelled ==
    [][/\ last'.op \in {"api", "deactivate", "transition"}
          => tasks \subseteq tasks'
       /\ last'.op = "task_write"
          => ch'[TaskOf(last'.h).channel].level_percent
                = TaskOf(last'.h).current
       /\ last'.op = "task_exit"
          => ch'[TaskOf(last'.h).channel].level_percent
                = TaskOf(last'.h).target_level]_vars

\* two jobs in opposite directions are both under way; job 1, on its way
\* from 100 to 98, has just written 99 over what job 2, on its way from 98
\* to 100 and one step in, or a direct call had left
C28_Witness ==
    /\ last = Step("task_write", 1, "-")
    /\ ch[1].level_percent = 99
    /\ \E t \in tasks : /\ t.id = 1
                         /\ t.start_level = 100
                         /\ t.target_level = 98
                         /\ t.current = 98
    /\ \E t \in tasks : /\ t.id = 2
                         /\ t.start_level = 98
                         /\ t.target_level = 100
                         /\ t.sleeps >= 1

\* C29: while a channel is inactive, no step of a transition job on it
\* writes level_percent, raises the pin, arms a timer or changes
\* current_delay.
C29_InactiveChannelNotWritten ==
    [][(/\ last'.op \in {"task_write", "task_exit"}
        /\ ~ch[TaskOf(last'.h).channel].is_active)
       => LET h == TaskOf(last'.h).channel
          IN  /\ ch'[h].level_percent = ch[h].level_percent
              /\ gpio' = gpio
              /\ ch'[h].delay_timer = ch[h].delay_timer
              /\ ch'[h].pulse_timer = ch[h].pulse_timer
              /\ ch'[h].current_delay = ch[h].current_delay]_vars


\* C30: an edge on the pin of a registered, active detector runs the
\* frequency measurement only while that detector's frequency is not
\* measured; then calls that detector's callback exactly once if one is set
\* (the callback finds the time stamp of this edge in the detector and the
\* channels not yet armed) and no callback otherwise, never another
\* phase's; then arms every active Idle channel of the phase and no other
\* channel; the other detectors are left alone.
C30_EdgeMeasuresCallsArms ==
    [][last'.op = "zero_cross"
       => LET i == find_zero_cross_by_pin(last'.h)
              zc == zero_cross[i]
          IN  /\ zc.frequency_measured => zero_cross'[i] = zc
              /\ ~zc.frequency_measured
                 => zero_cross'[i] = measure_sample(zc, micros(zc))
              /\ \A j \in DOMAIN zero_cross \ {i} :
                     zero_cross'[j] = zero_cross[j]
              /\ zc.callback = NULL => last'.calls = <<>>
              /\ zc.callback # NULL
                 => /\ Len(last'.calls) = 1
                    /\ last'.calls[1].callback = zc.callback
                    /\ last'.calls[1].phase = zc.phase
                    /\ last'.calls[1].last_cross_time
                          = zero_cross'[i].last_cross_time
                    /\ last'.calls[1].idle =
                          {h \in Range(channels) :
                              ch[h].timer_state = TIMER_STATE_IDLE}
              /\ \A h \in Range(channels) :
                     IF /\ ch[h].is_active
                        /\ ch[h].phase = zc.phase
                        /\ ch[h].timer_state = TIMER_STATE_IDLE
                     THEN /\ ch'[h].timer_state = TIMER_STATE_DELAY
                          /\ ch'[h].delay_timer = ch[h].current_delay
                          /\ ch'[h].pulse_timer =
                                 ch[h].current_delay
                                    + RBDIMMER_DEFAULT_PULSE_WIDTH_US
                     ELSE ch'[h] = ch[h]]_vars

\* an edge on pin 4, during the measurement of phase 0, has called the
\* callback of phase 0 (function 1, while phase 1 holds function 2), which
\* found channel 1 Idle; channel 1 is armed now
C30_Witness ==
    /\ last.op = "zero_cross"
    /\ last.h = 4
    /\ Len(last.calls) = 1
    /\ last.calls[1].callback = 1
    /\ 1 \in last.calls[1].idle
    /\ zero_cross[2].callback = 2
    /\ zero_cross[1].measurement_count = 7
    /\ ch[1].timer_state = TIMER_STATE_DELAY
    /\ ch[1].delay_timer # TIMER_STOPPED

\* C31: a timer callback that fires in a state it does not expect does
\* nothing: a delay-timer callback that finds timer_state Idle or PulseOn, and
\* a pulse-timer callback that finds it Idle or Delay, leave the output pin,
\* timer_state and every other field of the channel as they were (only the
\* one-shot timer that fired is no longer running).
C31_StaleCallbackIsNoOp ==
    [][/\ (/\ last'.op = "delay_timer"
           /\ last'.h \in DOMAIN ch
           /\ ch[last'.h].timer_state
                  \in {TIMER_STATE_IDLE, TIMER_STATE_PULSE_ON})
          => /\ gpio' = gpio
             /\ ch' = [ch EXCEPT ![last'.h].delay_timer = TIMER_STOPPED]
       /\ (/\ last'.op = "pulse_timer"
           /\ last'.h \in DOMAIN ch
           /\ ch[last'.h].timer_state
                  \in {TIMER_STATE_IDLE, TIMER_STATE_DELAY})
          => /\ gpio' = gpio
             /\ ch' = [ch EXCEPT ![last'.h].pulse_timer = TIMER_STOPPED]]_vars

\* the pulse timer has fired on a channel in Delay (its delay timer was
\* stopped by a deactivation under way) and the channel is still in Delay
C31_Witness ==
    /\ last = Step("pulse_timer", 1, "-")
    /\ ch[1].timer_state = TIMER_STATE_DELAY
    /\ gpio[18] = 0

\* C32: a zero-cross edge on the pin of a detector changes only that detector
\* and channels of its phase: every other detector keeps its measurement
\* state, and every channel on another phase keeps its timer_state, timers
\* and delay, and no output pin changes.
C32_EdgeTouchesOnlyItsPhase ==
    [][last'.op = "zero_cross"
       => LET i == find_zero_cross_by_pin(last'.h)
          IN  /\ i # NULL
              /\ Len(zero_cross') = Len(zero_cross)
              /\ \A j \in DOMAIN zero_cross \ {i} :
                     zero_cross'[j] = zero_cross[j]
              /\ DOMAIN ch' = DOMAIN ch
              /\ \A h \in DOMAIN ch :
                     ch[h].phase # zero_cross[i].phase => ch'[h] = ch[h]
              /\ gpio' = gpio
              /\ channels' = channels]_vars

\* an edge on pin 4 (phase 0) has been taken as a sample by its detector and
\* has armed channel 1, while channel 2 on phase 1 is in PulseOn with its
\* pulse timer running
C32_Witness ==
    /\ last.op = "zero_cross" /\ last.h = 4
    /\ zero_cross[1].measurement_count > 0
    /\ ch[1].timer_state = TIMER_STATE_DELAY
    /\ ch[1].delay_timer # TIMER_STOPPED
    /\ ch[2].timer_state = TIMER_STATE_PULSE_ON
    /\ ch[2].pulse_timer # TIMER_STOPPED

\* C33: rbdimmer_deinit is an idempotent reset: when it has returned, after
\* any sequence of operations, the channel registry and the detector table
\* are empty, no former channel object is left with its timers, every output
\* pin is low and the interrupt service is uninstalled; a second
\* rbdimmer_deinit changes nothing, and every phase can be registered again.
C33_DeinitResetsEverything ==
    last.op = "deinit" =>
        /\ channels = <<>>
        /\ zero_cross = <<>>
        /\ ch = <<>>
        /\ \A p \in DOMAIN gpio : gpio[p] = 0
        /\ ~isr_installed
        /\ ~isr_service
        /\ ~ENABLED (rbdimmer_deinit /\ vars' # vars)
        /\ \A phase \in LifePhaseArgs :
               register_zero_cross_err(4, phase, "none") = RBDIMMER_OK

\* C34: the shared interrupt dispatch service is installed only once: across
\* any sequence of rbdimmer_init, rbdimmer_register_zero_cross and
\* rbdimmer_deinit calls, a registration invokes the install primitive only
\* when the service is not installed at that moment.
C34_InstallOnlyWhenNotInstalled ==
    [][\A phase \in LifePhaseArgs, fail \in LifeRegisterFailArgs :
          (/\ register_installs(4, phase, fail)
           /\ rbdimmer_register_zero_cross(4, phase, 50, fail))
          => ~isr_service]_vars

\* C35: in every interleaving of API calls, zero-cross edges and timer
\* callbacks, including a timer callback or an edge that runs between the
\* statements of rbdimmer_set_active(channel, false), a channel whose
\* deactivation has completed and that has not been reactivated has its
\* output pin low and its timer_state Idle.
C35_DeactivatedStaysLowAndIdle ==
    \A h \in Range(channels) :
        (/\ ~ch[h].is_active
         /\ ~(pc.set_active # "none" /\ pc.channel = h))
        => /\ gpio[ch[h].gpio_pin] = 0
           /\ ch[h].timer_state = TIMER_STATE_IDLE

\* C36: after rbdimmer_delete_channel or rbdimmer_deinit has released a
\* channel, no transition job, timer callback or zero-cross handler reads or
\* writes that channel's state again, even when the channel is released
\* while a transition job for it is in flight: every step of a job works on a
\* channel that still exists, every timer callback belongs to a channel of
\* the registry, and the handler touches no object outside the registry.
C36_ReleasedChannelUntouched ==
    [][/\ last'.op \in {"task_write", "task_exit"}
          => \E t \in tasks : t.id = last'.h /\ t.channel \in DOMAIN ch
       /\ last'.op \in {"delay_timer", "pulse_timer"}
          => last'.h \in Range(channels)
       /\ last'.op = "zero_cross"
          => \A h \in DOMAIN ch \ Range(channels) :
                 h \in DOMAIN ch' /\ ch'[h] = ch[h]]_vars

\* C37: an armed channel always comes back to Idle: no reachable state leaves
\* an active channel for good in Delay or PulseOn, that is with neither of its
\* timers running and no handler run or deactivation under way that could
\* still move it (every later zero-cross edge skips a channel that is not
\* Idle), in particular not when the control context changes current_delay
\* while the edge handler arms the two timers.
C37_ArmedChannelReturnsToIdle ==
    \A h \in Range(channels) :
        ~(/\ ch[h].is_active
          /\ ch[h].timer_state \in {TIMER_STATE_DELAY, TIMER_STATE_PULSE_ON}
          /\ ch[h].delay_timer = TIMER_STOPPED
          /\ ch[h].pulse_timer = TIMER_STOPPED
          /\ pc.isr = "none"
          /\ pc.set_active = "none")

\* C38: in every reachable state, for every registered channel, the output
\* pin is high if and only if timer_state is PulseOn; in Idle and Delay the
\* pin is low.  (States in the middle of a call of rbdimmer_set_active or of
\* a run of the handler are not counted.)
C38_PinHighIffPulseOn ==
    pc = NoCall =>
        \A h \in Range(channels) :
            (gpio[ch[h].gpio_pin] = 1)
                <=> (ch[h].timer_state = TIMER_STATE_PULSE_ON)

\* C39: after every completed API call in any sequence (a create that failed
\* at any point and an rbdimmer_init issued while channels exist included),
\* the number of live timers (two per allocated channel object) is twice the
\* number of channels in the registry, and no channel object outside the
\* registry owns a timer that is running and can still drive its pin.
C39_TimersMatchRegistry ==
    /\ 2 * Cardinality(DOMAIN ch) = 2 * Len(channels)
    /\ \A h \in DOMAIN ch \ Range(channels) :
           /\ ch[h].delay_timer = TIMER_STOPPED
           /\ ch[h].pulse_timer = TIMER_STOPPED

\* C40: a channel whose curve type is Custom is accepted by create and by
\* set_curve without error, and at every level and half-cycle its delay is
\* the delay the Linear curve would give: Custom is defaulted to Linear,
\* never rejected.  The delay is the one the call computes: on creation, and
\* when a setter changes the level or the curve of an active channel.
C40_CustomIsLinear ==
    [][/\ \A level \in CustomCreateLevelArgs :
              (/\ last'.op = "create"
               /\ rbdimmer_create_channel(18, 0, level, RBDIMMER_CURVE_CUSTOM,
                                          "none"))
                  => /\ last'.was = RBDIMMER_OK
                     /\ Len(channels') = Len(channels) + 1
                     /\ ch'[channels'[Len(channels')]].curve_type
                            = RBDIMMER_CURVE_CUSTOM
       /\ \A h \in Range(channels) :
              (/\ last'.op = "api"
               /\ rbdimmer_set_curve(h, RBDIMMER_CURVE_CUSTOM))
                  => /\ set_curve_err(h, RBDIMMER_CURVE_CUSTOM) = RBDIMMER_OK
                     /\ ch'[h].curve_type = RBDIMMER_CURVE_CUSTOM
       /\ \A h \in Range(channels') :
              (/\ ch'[h].curve_type = RBDIMMER_CURVE_CUSTOM
               /\ ch'[h].is_active
               /\ \/ h \notin DOMAIN ch
                  \/ ch'[h].level_percent # ch[h].level_percent
                  \/ ch'[h].curve_type # ch[h].curve_type)
                  => ch'[h].current_delay =
                         level_to_delay(ch'[h].level_percent,
                                        zero_cross'[1].half_cycle_us,
                                        RBDIMMER_CURVE_LINEAR)]_vars

\* a setter has returned on a Custom channel at level 50 on a 60 Hz detector,
\* where the RMS-compensated curve gives another delay
C40_Witness ==
    /\ last.op = "api"
    /\ zero_cross[1].half_cycle_us = 8333
    /\ \E h \in Range(channels) :
           /\ ch[h].curve_type = RBDIMMER_CURVE_CUSTOM
           /\ ch[h].level_percent = 50
           /\ ch[h].current_delay
                  # level_to_delay(50, 8333, RBDIMMER_CURVE_RMS)
=============================================================================
